---------------------------- MODULE Spec2Model ----------------------------
(***************************************************************************)
(* A model of the keion-etherscan client: argument validation, request     *)
(* construction (one HTTP GET per call) and the unwrapping of the response *)
(* envelope {status, message, result}.                                     *)
(*                                                                         *)
(* Strings that the code inspects character by character (addresses,      *)
(* hashes, query values) are sequences of one-character strings.  JSON     *)
(* bodies are modelled after parsing, as tagged values.                    *)
(***************************************************************************)
EXTENDS Integers, Sequences, FiniteSets, TLC

(***************************************************************************)
(* Bounds of the model.                                                    *)
(***************************************************************************)
\* how many addresses beyond the cap of a multi-address call are tried
MaxOver == 5

\* the most hashes a batch of status lookups is given
MaxHashes == 2

(***************************************************************************)
(* Program constants.                                                      *)
(***************************************************************************)
AddressLen == 42
TxHashLen == 66
BalanceMultiMax == 20
ContractCreationMax == 5

(***************************************************************************)
(* Characters and strings.                                                 *)
(***************************************************************************)
Digits == {"0", "1", "2", "3", "4", "5", "6", "7", "8", "9"}
LowerHex == {"a", "b", "c", "d", "e", "f"}
UpperHex == {"A", "B", "C", "D", "E", "F"}

\* char::is_ascii_hexdigit
IsAsciiHexDigit(c) == c \in Digits \cup LowerHex \cup UpperHex

\* char lowercasing, as str::to_lowercase applies it to each character
LowerChar(c) ==
    CASE c = "A" -> "a" [] c = "B" -> "b" [] c = "C" -> "c"
      [] c = "D" -> "d" [] c = "E" -> "e" [] c = "F" -> "f"
      [] c = "X" -> "x" [] c = "Z" -> "z"
      [] OTHER -> c

\* str::to_lowercase
ToLowercase(s) == [i \in 1..Len(s) |-> LowerChar(s[i])]

\* str::starts_with
StartsWith(s, p) == Len(s) >= Len(p) /\ SubSeq(s, 1, Len(p)) = p

\* n copies of the character c
Rep(c, n) == [i \in 1..n |-> c]

\* slice.join(","): the strings of list separated by commas
RECURSIVE Join(_)
Join(list) ==
    IF list = <<>> THEN <<>>
    ELSE IF Len(list) = 1 THEN list[1]
    ELSE list[1] \o <<",">> \o Join(Tail(list))

(***************************************************************************)
(* Results and errors (EtherscanError).  The discriminating field kind is  *)
(* the first field of every error record.                                  *)
(***************************************************************************)
Ok(v) == [ok |-> TRUE, val |-> v]
Err(e) == [ok |-> FALSE, err |-> e]

ErrRequest == [kind |-> "Request"]
ErrHttp(status, message) == [kind |-> "Http", status |-> status, message |-> message]
ErrApi(message) == [kind |-> "Api", message |-> message, result |-> "None"]
ErrResponse(msg) == [kind |-> "Response", msg |-> msg]
ErrParse == [kind |-> "Parse"]
ErrInvalidAddress(a) == [kind |-> "InvalidAddress", input |-> a]
ErrInvalidTxHash(h) == [kind |-> "InvalidTxHash", input |-> h]
ErrInvalidParams(msg) == [kind |-> "InvalidParams", msg |-> msg]

\* EtherscanError::is_retryable, the answers it can give for e.  Its body is
\*   matches!(self, Request(_) | Http { status, .. }
\*                  if *status >= 500 || RateLimit { .. } || Timeout(_))
\* The pattern of matches! ends at "if": it is Request(_) | Http { .. }, and
\* everything behind "if" is the guard.  No other variant matches the
\* pattern.  The guard is true for Http with status >= 500; for Request it
\* reads status, which that alternative does not bind, and for Http below
\* 500 it goes on to two operands that are patterns, not values: in both
\* cases the answer is not determined by the text.
is_retryable(e) ==
    IF e.kind = "Http" /\ e.status >= 500 THEN {TRUE}
    ELSE IF e.kind \in {"Request", "Http"} THEN {TRUE, FALSE}
    ELSE {FALSE}

(***************************************************************************)
(* error::validation                                                       *)
(***************************************************************************)
\* variant of validate_address: prefix and length only
validate_address_no_hex_check(address) ==
    IF ~StartsWith(address, <<"0", "x">>) \/ Len(address) # AddressLen
    THEN Err(ErrInvalidAddress(address))
    ELSE Ok("unit")

\* validation::validate_address
validate_address(address) ==
    IF ~StartsWith(address, <<"0", "x">>) \/ Len(address) # AddressLen
    THEN Err(ErrInvalidAddress(address))
    ELSE IF ~(\A i \in 3..Len(address) : IsAsciiHexDigit(address[i]))
    THEN Err(ErrInvalidAddress(address))
    ELSE Ok("unit")

\* validation::validate_tx_hash
validate_tx_hash(hash) ==
    IF ~StartsWith(hash, <<"0", "x">>) \/ Len(hash) # TxHashLen
    THEN Err(ErrInvalidTxHash(hash))
    ELSE IF ~(\A i \in 3..Len(hash) : IsAsciiHexDigit(hash[i]))
    THEN Err(ErrInvalidTxHash(hash))
    ELSE Ok("unit")

\* variant of normalize_address: lowercases without validating
normalize_address_unchecked(address) == Ok(ToLowercase(address))

\* validation::normalize_address
normalize_address(address) ==
    IF ~validate_address(address).ok
    THEN validate_address(address)
    ELSE Ok(ToLowercase(address))

(***************************************************************************)
(* JSON values, as serde_json sees a body after tokenising it.  An object  *)
(* keeps its members in text order (a key may occur twice).                *)
(***************************************************************************)
NotJson == [k |-> "invalid"]
JNull == [k |-> "null"]
JNum(n) == [k |-> "num", n |-> n]
JStr(s) == [k |-> "str", s |-> s]
JArr(items) == [k |-> "arr", items |-> items]
JObj(members) == [k |-> "obj", members |-> members]
Member(key, val) == [key |-> key, val |-> val]

\* the members of object v whose key is key
MembersOf(v, key) == SelectSeq(v.members, LAMBDA m : m.key = key)

(***************************************************************************)
(* Result types T of the endpoints (what serde derives for them).          *)
(*   string : String, BigNumber, Address, TxHash (a JSON string, verbatim) *)
(*   u64    : StringNumber (a JSON string holding a decimal u64)           *)
(*   optu64 : deserialize_optional_string_number                           *)
(*   struct : derived Deserialize, unknown keys ignored                    *)
(*   vec    : Vec<elem>                                                    *)
(* A field with opt = TRUE is an Option<..>: null or absent gives None.    *)
(***************************************************************************)
TString == [t |-> "string"]
TU64 == [t |-> "u64"]
TOptU64 == [t |-> "optu64"]
TStruct(fields) == [t |-> "struct", fields |-> fields]
TVec(elem) == [t |-> "vec", elem |-> elem]
Field(name, ty) == [name |-> name, ty |-> ty, opt |-> FALSE]
OptField(name, ty) == [name |-> name, ty |-> ty, opt |-> TRUE]

None == <<>>
Some(x) == <<x>>
Fail == [ok |-> FALSE]

\* the decimal numeral of u64::MAX, most significant digit first
U64MaxDigits ==
    <<"1", "8", "4", "4", "6", "7", "4", "4", "0", "7",
      "3", "7", "0", "9", "5", "5", "1", "6", "1", "5">>

DigitVal(c) ==
    CASE c = "0" -> 0 [] c = "1" -> 1 [] c = "2" -> 2 [] c = "3" -> 3
      [] c = "4" -> 4 [] c = "5" -> 5 [] c = "6" -> 6 [] c = "7" -> 7
      [] c = "8" -> 8 [] c = "9" -> 9

\* a numeral without its leading zeros ("0" for zero)
RECURSIVE StripZeros(_)
StripZeros(ds) ==
    IF Len(ds) > 1 /\ ds[1] = "0" THEN StripZeros(Tail(ds)) ELSE ds

\* a <= b for two numerals of the same length
RECURSIVE DigitsLeq(_, _)
DigitsLeq(a, b) ==
    IF a = <<>> THEN TRUE
    ELSE IF DigitVal(a[1]) < DigitVal(b[1]) THEN TRUE
    ELSE IF DigitVal(a[1]) > DigitVal(b[1]) THEN FALSE
    ELSE DigitsLeq(Tail(a), Tail(b))

\* str::parse::<u64>: an optional "+", then one or more digits, value <= u64::MAX
ParseU64(s) ==
    LET ds == IF s # <<>> /\ s[1] = "+" THEN Tail(s) ELSE s
        canon == StripZeros(ds)
    IN  IF ds = <<>> \/ ~(\A i \in 1..Len(ds) : ds[i] \in Digits) THEN Fail
        ELSE IF Len(canon) > Len(U64MaxDigits) THEN Fail
        ELSE IF Len(canon) = Len(U64MaxDigits) /\ ~DigitsLeq(canon, U64MaxDigits) THEN Fail
        ELSE Ok(canon)

\* models::deserialize_optional_string_number
deserialize_optional_string_number(v) ==
    IF v.k = "null" THEN Ok(None)
    ELSE IF v.k # "str" THEN Fail
    ELSE IF v.s = <<>> THEN Ok(None)
    ELSE IF ParseU64(v.s).ok THEN Ok(Some(ParseU64(v.s).val))
    ELSE Fail

\* models::deserialize_string_number
deserialize_string_number(v) ==
    IF v.k # "str" THEN Fail ELSE ParseU64(v.s)

(***************************************************************************)
(* serde_json::from_str::<T> on an already tokenised body.                 *)
(***************************************************************************)
RECURSIVE Decode(_, _)
\* one field of a derived struct, read from the members of object v
DecodeField(f, v) ==
    LET ms == MembersOf(v, f.name)
    IN  IF Len(ms) > 1 THEN Fail
        ELSE IF Len(ms) = 0 THEN (IF f.opt THEN Ok(None) ELSE Fail)
        ELSE IF f.opt /\ ms[1].val.k = "null" THEN Ok(None)
        ELSE IF f.opt THEN
            (IF Decode(f.ty, ms[1].val).ok
             THEN Ok(Some(Decode(f.ty, ms[1].val).val)) ELSE Fail)
        ELSE Decode(f.ty, ms[1].val)

\* one field of a derived struct, read from position i of array v
DecodeElement(f, v, i) ==
    IF f.opt /\ v.items[i].k = "null" THEN Ok(None)
    ELSE IF f.opt THEN
        (IF Decode(f.ty, v.items[i]).ok
         THEN Ok(Some(Decode(f.ty, v.items[i]).val)) ELSE Fail)
    ELSE Decode(f.ty, v.items[i])

Decode(T, v) ==
    CASE T.t = "string" -> (IF v.k = "str" THEN Ok(v.s) ELSE Fail)
      [] T.t = "u64" -> deserialize_string_number(v)
      [] T.t = "optu64" -> deserialize_optional_string_number(v)
      [] T.t = "vec" ->
            IF v.k # "arr" THEN Fail
            ELSE IF \A i \in 1..Len(v.items) : Decode(T.elem, v.items[i]).ok
            THEN Ok([i \in 1..Len(v.items) |-> Decode(T.elem, v.items[i]).val])
            ELSE Fail
      [] T.t = "struct" ->
            IF v.k = "obj" THEN
                (IF \A i \in 1..Len(T.fields) : DecodeField(T.fields[i], v).ok
                 THEN Ok([i \in 1..Len(T.fields) |-> DecodeField(T.fields[i], v).val])
                 ELSE Fail)
            ELSE IF v.k = "arr" THEN
                (IF Len(v.items) = Len(T.fields)
                    /\ \A i \in 1..Len(T.fields) : DecodeElement(T.fields[i], v, i).ok
                 THEN Ok([i \in 1..Len(T.fields) |-> DecodeElement(T.fields[i], v, i).val])
                 ELSE Fail)
            ELSE Fail

\* types::EtherscanResponse<T>
EtherscanResponse(T) ==
    TStruct(<<Field("status", TString), Field("message", TString), Field("result", T)>>)

(***************************************************************************)
(* The result types of the endpoints (models/*.rs), by their wire names.   *)
(***************************************************************************)
Balance ==
    TStruct(<<OptField("account", TString), Field("balance", TString)>>)

TokenBalance ==
    TStruct(<<Field("TokenAddress", TString), Field("TokenName", TString),
              Field("TokenSymbol", TString), Field("TokenDecimal", TOptU64),
              Field("TokenQuantity", TString)>>)

Transaction ==
    TStruct(<<Field("blockNumber", TU64), Field("blockHash", TString),
              Field("transactionIndex", TU64), Field("hash", TString),
              Field("nonce", TU64), Field("from", TString),
              OptField("to", TString), Field("value", TString),
              Field("gas", TU64), Field("gasPrice", TString),
              Field("gasUsed", TU64), Field("cumulativeGasUsed", TU64),
              Field("input", TString), Field("timeStamp", TU64),
              OptField("methodId", TString), OptField("functionName", TString),
              OptField("txreceipt_status", TU64), OptField("confirmations", TU64),
              OptField("isError", TU64)>>)

InternalTransaction ==
    TStruct(<<Field("blockNumber", TU64), Field("hash", TString),
              Field("from", TString), OptField("to", TString),
              Field("value", TString), OptField("contractAddress", TString),
              Field("input", TString), Field("type", TString),
              Field("gas", TU64), Field("gasUsed", TU64),
              Field("traceId", TString), Field("isError", TU64),
              OptField("errCode", TString), Field("timeStamp", TU64)>>)

TokenTransfer ==
    TStruct(<<Field("blockNumber", TU64), Field("blockHash", TString),
              Field("hash", TString), Field("transactionIndex", TU64),
              Field("from", TString), Field("to", TString),
              Field("contractAddress", TString), Field("value", TString),
              Field("tokenName", TString), Field("tokenSymbol", TString),
              Field("tokenDecimal", TU64), Field("gasPrice", TString),
              Field("gasUsed", TU64), Field("timeStamp", TU64),
              Field("logIndex", TU64), OptField("tokenID", TString),
              OptField("confirmations", TU64)>>)

ValidatedBlock ==
    TStruct(<<Field("blockNumber", TU64), Field("timeStamp", TU64),
              Field("blockReward", TU64)>>)

BeaconWithdrawal ==
    TStruct(<<Field("withdrawalIndex", TU64), Field("validatorIndex", TU64),
              Field("address", TString), Field("amount", TString),
              Field("blockNumber", TU64), Field("timestamp", TU64)>>)

ContractAbi == TStruct(<<Field("ABI", TString)>>)

ContractSource ==
    TStruct(<<Field("SourceCode", TString), Field("ABI", TString),
              Field("ContractName", TString), Field("CompilerVersion", TString),
              Field("OptimizationUsed", TU64), Field("Runs", TU64),
              Field("ConstructorArguments", TString), Field("EVMVersion", TString),
              Field("Library", TString), Field("LicenseType", TString),
              Field("Proxy", TU64), Field("Implementation", TString),
              Field("SwarmSource", TString)>>)

ContractCreation ==
    TStruct(<<Field("contractAddress", TString), Field("contractCreator", TString),
              Field("txHash", TString)>>)

VerificationStatus == TStruct(<<Field("status", TString)>>)

ProxyVerificationStatus == TStruct(<<Field("result", TString)>>)

(***************************************************************************)
(* client.rs: the request and the handling of the response.                *)
(***************************************************************************)
\* the API key the client was built with
ApiKey == <<"k", "e", "y">>

Param(key, value) == [key |-> key, value |-> value]

\* variant of make_request: the parameters of the call come first, the three
\* fixed pairs after them
make_request_params_first(module, action, params) ==
    params \o <<Param("module", module), Param("action", action),
                Param("apikey", ApiKey)>>

\* make_request, up to send(): the query string of the GET, pair by pair
make_request(module, action, params) ==
    <<Param("module", module), Param("action", action), Param("apikey", ApiKey)>>
        \o params

\* what the transport hands back: a failure of send(), or a status code and
\* a body (a body whose text cannot be read is Unreadable)
NetError == [net |-> "error"]
Response(status, body) == [net |-> "ok", status |-> status, body |-> body]
Unreadable == [k |-> "unreadable"]
UnknownErrorText == [k |-> "text", s |-> "Unknown error"]

\* StatusCode::is_success
is_success(status) == 200 <= status /\ status <= 299

\* variant of make_request_result: the status code is not looked at
make_request_result_unchecked(r) ==
    IF r.net = "error" THEN Err(ErrRequest) ELSE Ok(r)

\* make_request, after send(): a transport failure or a non-2xx status ends
\* the call, otherwise the response goes on to parse_response
make_request_result(r) ==
    IF r.net = "error" THEN Err(ErrRequest)
    ELSE IF ~is_success(r.status)
    THEN Err(ErrHttp(r.status,
                     IF r.body = Unreadable THEN UnknownErrorText ELSE r.body))
    ELSE Ok(r)

\* variant of match_status: every status but "0" is taken as success
match_status_default_ok(wrapper) ==
    IF wrapper[1] = <<"0">> THEN Err(ErrApi(wrapper[2])) ELSE Ok(wrapper[3])

\* the match on wrapper.status in parse_response; wrapper is the decoded
\* envelope <<status, message, result>>
match_status(wrapper) ==
    IF wrapper[1] = <<"1">> THEN Ok(wrapper[3])
    ELSE IF wrapper[1] = <<"0">> THEN Err(ErrApi(wrapper[2]))
    ELSE Err(ErrResponse(<<"Unknown status: ", wrapper[1]>>))

\* variant of parse_response: the bare payload is tried first, the envelope
\* only when that failed
parse_response_direct_first(T, r) ==
    IF r.body = Unreadable
    THEN [res |-> Err(ErrResponse(<<"Failed to read response">>)),
          steps |-> <<"text">>]
    ELSE IF Decode(T, r.body).ok
    THEN [res |-> Ok(Decode(T, r.body).val), steps |-> <<"text", "direct">>]
    ELSE IF Decode(EtherscanResponse(T), r.body).ok
    THEN [res |-> match_status(Decode(EtherscanResponse(T), r.body).val),
          steps |-> <<"text", "direct", "envelope">>]
    ELSE [res |-> Err(ErrParse), steps |-> <<"text", "direct", "envelope">>]

\* parse_response::<T>; steps lists the decoding steps it ran
parse_response(T, r) ==
    IF r.body = Unreadable
    THEN [res |-> Err(ErrResponse(<<"Failed to read response">>)),
          steps |-> <<"text">>]
    ELSE IF Decode(EtherscanResponse(T), r.body).ok
    THEN [res |-> match_status(Decode(EtherscanResponse(T), r.body).val),
          steps |-> <<"text", "envelope">>]
    ELSE [res |-> IF Decode(T, r.body).ok THEN Ok(Decode(T, r.body).val)
                  ELSE Err(ErrParse),
          steps |-> <<"text", "envelope", "direct">>]

\* get::<T>, after send()
get(T, r) ==
    IF ~make_request_result(r).ok
    THEN [res |-> make_request_result(r), steps |-> <<>>]
    ELSE parse_response(T, make_request_result(r).val)

(***************************************************************************)
(* types.rs: Sort, Tag, Pagination.                                        *)
(***************************************************************************)
DigitChar(d) ==
    CASE d = 0 -> "0" [] d = 1 -> "1" [] d = 2 -> "2" [] d = 3 -> "3"
      [] d = 4 -> "4" [] d = 5 -> "5" [] d = 6 -> "6" [] d = 7 -> "7"
      [] d = 8 -> "8" [] d = 9 -> "9"

\* u32::to_string, u64::to_string
RECURSIVE to_string(_)
to_string(n) ==
    IF n < 10 THEN <<DigitChar(n)>>
    ELSE to_string(n \div 10) \o <<DigitChar(n % 10)>>

\* Sort::as_str
Sort_as_str(sort) ==
    IF sort = "Ascending" THEN <<"a", "s", "c">> ELSE <<"d", "e", "s", "c">>

Latest == <<"l", "a", "t", "e", "s", "t">>

\* the values of enum Tag
TagLatest == [tag |-> "Latest"]
TagEarliest == [tag |-> "Earliest"]
TagPending == [tag |-> "Pending"]
TagBlock(number) == [tag |-> "Block", block |-> number]

\* Tag::as_str
Tag_as_str(tag) ==
    CASE tag.tag = "Latest" -> Latest
      [] tag.tag = "Earliest" -> <<"e", "a", "r", "l", "i", "e", "s", "t">>
      [] tag.tag = "Pending" -> <<"p", "e", "n", "d", "i", "n", "g">>
      [] tag.tag = "Block" -> to_string(tag.block)

\* TransactionType::as_str
TransactionType_as_str(tx_type) ==
    CASE tx_type = "Normal" -> "txlist"
      [] tx_type = "Internal" -> "txlistinternal"
      [] tx_type = "Token" -> "tokentx"
      [] tx_type = "TokenNft" -> "tokennfttx"
      [] tx_type = "Token1155" -> "token1155tx"

\* Pagination::new
Pagination_new ==
    [page |-> None, offset |-> None, start_block |-> None,
     end_block |-> None, sort |-> None]

Pagination_page(p, page) == [p EXCEPT !.page = Some(page)]
Pagination_offset(p, offset) == [p EXCEPT !.offset = Some(offset)]
Pagination_start_block(p, block) == [p EXCEPT !.start_block = Some(block)]
Pagination_end_block(p, block) == [p EXCEPT !.end_block = Some(block)]
Pagination_sort(p, sort) == [p EXCEPT !.sort = Some(sort)]
Pagination_block_range(p, start, end) ==
    [p EXCEPT !.start_block = Some(start), !.end_block = Some(end)]

\* a variant that pushes the sort pair first
to_params_sort_first(p) ==
    (IF p.sort # None THEN <<Param("sort", Sort_as_str(p.sort[1]))>> ELSE <<>>)
    \o (IF p.page # None THEN <<Param("page", to_string(p.page[1]))>> ELSE <<>>)
    \o (IF p.offset # None THEN <<Param("offset", to_string(p.offset[1]))>> ELSE <<>>)
    \o (IF p.start_block # None
        THEN <<Param("startblock", to_string(p.start_block[1]))>> ELSE <<>>)
    \o (IF p.end_block # None
        THEN <<Param("endblock", to_string(p.end_block[1]))>> ELSE <<>>)

\* Pagination::to_params
to_params(p) ==
    (IF p.page # None THEN <<Param("page", to_string(p.page[1]))>> ELSE <<>>)
    \o (IF p.offset # None THEN <<Param("offset", to_string(p.offset[1]))>> ELSE <<>>)
    \o (IF p.start_block # None
        THEN <<Param("startblock", to_string(p.start_block[1]))>> ELSE <<>>)
    \o (IF p.end_block # None
        THEN <<Param("endblock", to_string(p.end_block[1]))>> ELSE <<>>)
    \o (IF p.sort # None THEN <<Param("sort", Sort_as_str(p.sort[1]))>> ELSE <<>>)

(***************************************************************************)
(* endpoints/accounts.rs and endpoints/contracts.rs: what each operation   *)
(* does before it awaits the transport.  The value is Err(e) when the      *)
(* operation returns early, and Ok(query) when it sends the GET query.     *)
(***************************************************************************)
\* variant of normalize_all: malformed addresses are dropped from the list
normalize_all_partial(addresses) ==
    LET valid == SelectSeq(addresses, LAMBDA a : validate_address(a).ok)
    IN  Ok([i \in 1..Len(valid) |-> ToLowercase(valid[i])])

\* addresses.iter().map(normalize_address).collect::<Result<Vec<String>>>()
RECURSIVE normalize_all(_)
normalize_all(addresses) ==
    IF addresses = <<>> THEN Ok(<<>>)
    ELSE LET first == normalize_address(addresses[1])
             rest == normalize_all(Tail(addresses))
         IN  IF ~first.ok THEN first
             ELSE IF ~rest.ok THEN rest
             ELSE Ok(<<first.val>> \o rest.val)

\* Accounts::balance
balance(address) ==
    IF ~normalize_address(address).ok THEN normalize_address(address)
    ELSE Ok(make_request("account", "balance",
                <<Param("address", normalize_address(address).val),
                  Param("tag", Latest)>>))

\* Balance::wei
Balance_wei(b) == b[2]

\* Accounts::balance_at_block
balance_at_block(address, tag) ==
    IF ~normalize_address(address).ok THEN normalize_address(address)
    ELSE Ok(make_request("account", "balance",
                <<Param("address", normalize_address(address).val),
                  Param("tag", Tag_as_str(tag))>>))

\* variant of balance_multi: a list of exactly BalanceMultiMax is refused
balance_multi_cap_exclusive(addresses) ==
    IF addresses = <<>>
    THEN Err(ErrInvalidParams("At least one address required"))
    ELSE IF Len(addresses) >= BalanceMultiMax
    THEN Err(ErrInvalidParams("Maximum 20 addresses allowed"))
    ELSE IF ~normalize_all(addresses).ok THEN normalize_all(addresses)
    ELSE Ok(make_request("account", "balancemulti",
                <<Param("address", Join(normalize_all(addresses).val)),
                  Param("tag", Latest)>>))

\* Accounts::balance_multi
balance_multi(addresses) ==
    IF addresses = <<>>
    THEN Err(ErrInvalidParams("At least one address required"))
    ELSE IF Len(addresses) > BalanceMultiMax
    THEN Err(ErrInvalidParams("Maximum 20 addresses allowed"))
    ELSE IF ~normalize_all(addresses).ok THEN normalize_all(addresses)
    ELSE Ok(make_request("account", "balancemulti",
                <<Param("address", Join(normalize_all(addresses).val)),
                  Param("tag", Latest)>>))

\* Accounts::token_balances
token_balances(address) ==
    IF ~normalize_address(address).ok THEN normalize_address(address)
    ELSE Ok(make_request("account", "tokenlist",
                <<Param("address", normalize_address(address).val),
                  Param("tag", Latest)>>))

\* Contracts::get_abi
get_abi(address) ==
    IF ~normalize_address(address).ok THEN normalize_address(address)
    ELSE Ok(make_request("contract", "getabi",
                <<Param("address", normalize_address(address).val)>>))

\* Contracts::get_source_code
get_source_code(address) ==
    IF ~normalize_address(address).ok THEN normalize_address(address)
    ELSE Ok(make_request("contract", "getsourcecode",
                <<Param("address", normalize_address(address).val)>>))

\* variant of get_contract_creation: the cap of balance_multi is applied
get_contract_creation_cap_20(addresses) ==
    IF addresses = <<>>
    THEN Err(ErrInvalidParams("At least one address required"))
    ELSE IF Len(addresses) > BalanceMultiMax
    THEN Err(ErrInvalidParams("Maximum 5 addresses allowed"))
    ELSE IF ~normalize_all(addresses).ok THEN normalize_all(addresses)
    ELSE Ok(make_request("contract", "getcontractcreation",
                <<Param("contractaddresses", Join(normalize_all(addresses).val))>>))

\* Contracts::get_contract_creation
get_contract_creation(addresses) ==
    IF addresses = <<>>
    THEN Err(ErrInvalidParams("At least one address required"))
    ELSE IF Len(addresses) > ContractCreationMax
    THEN Err(ErrInvalidParams("Maximum 5 addresses allowed"))
    ELSE IF ~normalize_all(addresses).ok THEN normalize_all(addresses)
    ELSE Ok(make_request("contract", "getcontractcreation",
                <<Param("contractaddresses", Join(normalize_all(addresses).val))>>))

\* Contracts::check_verification_status
check_verification_status(guid) ==
    Ok(make_request("contract", "checkverifystatus", <<Param("guid", guid)>>))

\* Contracts::check_proxy_verification_status
check_proxy_verification_status(guid) ==
    Ok(make_request("contract", "checkproxyverification", <<Param("guid", guid)>>))

(***************************************************************************)
(* endpoints/transactions.rs.  The status records and normalize_tx_hash    *)
(* are used by the endpoint but declared outside the sources at hand; they *)
(* are written here as the endpoint and its tests use them.                *)
(***************************************************************************)
\* models::TxHash::new: lowercases, checks nothing
TxHash_new(hash) == ToLowercase(hash)

\* models::Address::new: lowercases, checks nothing
Address_new(address) == ToLowercase(address)

\* From<String> and From<&str> for Address: Address::new
Address_from(address) == Address_new(address)

\* the derived, transparent Deserialize of Address: the JSON string as it is
Address_deserialize(v) == Decode(TString, v)

\* error::validation::normalize_tx_hash, the counterpart of normalize_address
normalize_tx_hash(hash) ==
    IF validate_tx_hash(hash).ok THEN Ok(ToLowercase(hash)) ELSE validate_tx_hash(hash)

\* models::ContractExecutionStatus { is_error, error_description }
ContractExecutionStatus ==
    TStruct(<<Field("isError", TU64), Field("errDescription", TString)>>)

\* models::TransactionReceiptStatus { status }
TransactionReceiptStatus == TStruct(<<Field("status", TU64)>>)

\* ContractExecutionStatus::is_successful: is_error is zero
ContractExecutionStatus_is_successful(s) == s[1] = <<"0">>

\* TransactionReceiptStatus::is_successful: status is one
TransactionReceiptStatus_is_successful(s) == s[1] = <<"1">>

\* TransactionStatus::new: both signals absent
TransactionStatus_new(tx_hash) ==
    [tx_hash |-> tx_hash, contract_execution |-> None, receipt_status |-> None]

\* a variant that asks the execution status first
is_successful_execution_first(status) ==
    IF status.contract_execution # None
    THEN Some(ContractExecutionStatus_is_successful(status.contract_execution[1]))
    ELSE IF status.receipt_status # None
    THEN Some(TransactionReceiptStatus_is_successful(status.receipt_status[1]))
    ELSE None

\* TransactionStatus::is_successful: the receipt when present, else the
\* execution status, else nothing
is_successful(status) ==
    IF status.receipt_status # None
    THEN Some(TransactionReceiptStatus_is_successful(status.receipt_status[1]))
    ELSE IF status.contract_execution # None
    THEN Some(ContractExecutionStatus_is_successful(status.contract_execution[1]))
    ELSE None

\* Transactions::get_execution_status, up to its request
get_execution_status(tx_hash) ==
    IF normalize_tx_hash(tx_hash).ok
    THEN Ok(make_request("transaction", "getstatus",
                         <<Param("txhash", normalize_tx_hash(tx_hash).val)>>))
    ELSE normalize_tx_hash(tx_hash)

\* variant of get_receipt_status: the hash is lowercased and sent unchecked
get_receipt_status_unchecked(tx_hash) ==
    Ok(make_request("transaction", "gettxreceiptstatus",
                    <<Param("txhash", ToLowercase(tx_hash))>>))

\* Transactions::get_receipt_status, up to its request
get_receipt_status(tx_hash) ==
    IF normalize_tx_hash(tx_hash).ok
    THEN Ok(make_request("transaction", "gettxreceiptstatus",
                         <<Param("txhash", normalize_tx_hash(tx_hash).val)>>))
    ELSE normalize_tx_hash(tx_hash)

\* a variant that keeps no execution status at all
record_execution_dropped(status, r) == status

\* get_comprehensive_status, the match on the execution lookup: Ok stores
\* the signal, the Err arm is empty
record_execution(status, r) ==
    IF r.ok THEN [status EXCEPT !.contract_execution = Some(r.val)] ELSE status

\* get_comprehensive_status, the match on the receipt lookup
record_receipt(status, r) ==
    IF r.ok THEN [status EXCEPT !.receipt_status = Some(r.val)] ELSE status

\* what the combined operation op returns once status is assembled:
\* get_comprehensive_status the record, is_transaction_successful its verdict
combined_result(op, status) ==
    IF op = "Transactions::is_transaction_successful"
    THEN Ok(is_successful(status))
    ELSE Ok(status)

(***************************************************************************)
(* TransactionStatusBuilder (endpoints/transactions.rs): the batch of      *)
(* status lookups.                                                         *)
(***************************************************************************)
\* TransactionStatusBuilder::new: no hash, both checks on
TransactionStatusBuilder_new ==
    [kind |-> "TransactionStatusBuilder", tx_hashes |-> <<>>,
     check_execution |-> TRUE, check_receipt |-> TRUE]

\* TransactionStatusBuilder::transaction: pushes TxHash::new of the string
TransactionStatusBuilder_transaction(b, tx_hash) ==
    [b EXCEPT !.tx_hashes = Append(@, TxHash_new(tx_hash))]

\* TransactionStatusBuilder::transactions: pushes the hashes one by one
RECURSIVE TransactionStatusBuilder_transactions(_, _)
TransactionStatusBuilder_transactions(b, tx_hashes) ==
    IF tx_hashes = <<>> THEN b
    ELSE TransactionStatusBuilder_transactions(
             [b EXCEPT !.tx_hashes = Append(@, TxHash_new(Head(tx_hashes)))],
             Tail(tx_hashes))

\* TransactionStatusBuilder::execution_only
TransactionStatusBuilder_execution_only(b) ==
    [b EXCEPT !.check_execution = TRUE, !.check_receipt = FALSE]

\* a variant of receipt_only that leaves check_execution as it is
TransactionStatusBuilder_receipt_only_adding(b) ==
    [b EXCEPT !.check_receipt = TRUE]

\* TransactionStatusBuilder::receipt_only
TransactionStatusBuilder_receipt_only(b) ==
    [b EXCEPT !.check_execution = FALSE, !.check_receipt = TRUE]

\* a variant that keeps no execution status at all
execute_store_execution_dropped(status, r) == status

\* execute, if let Ok(execution) = ..: Ok stores the signal, anything else
\* is passed over
execute_store_execution(status, r) ==
    IF r.ok THEN [status EXCEPT !.contract_execution = Some(r.val)] ELSE status

\* execute, if let Ok(receipt) = ..
execute_store_receipt(status, r) ==
    IF r.ok THEN [status EXCEPT !.receipt_status = Some(r.val)] ELSE status

\* TransactionStatusBuilder::execute from one suspension to the next.
\* results holds the statuses pushed so far, followed, in phase "receipt", by
\* the status of the hash in work.  Phase "hash" is the head of the for
\* loop, phase "receipt" the point after the execution check.  The answer
\* is the next request and the place execute waits at, or the end of the
\* loop.
RECURSIVE TransactionStatusBuilder_execute(_, _, _)
TransactionStatusBuilder_execute(b, results, phase) ==
    IF phase = "hash"
    THEN IF Len(results) = Len(b.tx_hashes)
         THEN [pc |-> "done", status |-> results, request |-> None]
         ELSE LET tx_hash == b.tx_hashes[Len(results) + 1]
                  started == Append(results, TransactionStatus_new(tx_hash)) IN
              IF b.check_execution
              THEN [pc |-> "batch_execution", status |-> started,
                    request |-> Some(make_request("transaction", "getstatus",
                                         <<Param("txhash", tx_hash)>>))]
              ELSE TransactionStatusBuilder_execute(b, started, "receipt")
    ELSE IF b.check_receipt
         THEN [pc |-> "batch_receipt", status |-> results,
               request |-> Some(make_request("transaction", "gettxreceiptstatus",
                                    <<Param("txhash", results[Len(results)].tx_hash)>>))]
         ELSE TransactionStatusBuilder_execute(b, results, "hash")

(***************************************************************************)
(* The query builders of endpoints/accounts.rs.  A builder is a record of  *)
(* its fields; kind names its type.                                        *)
(***************************************************************************)
\* variant of TransactionQueryBuilder::new: the address is lowercased when
\* the builder is made
TransactionQueryBuilder_new_lowercased(address, tx_type) ==
    [kind |-> "TransactionQueryBuilder", address |-> ToLowercase(address),
     tx_type |-> tx_type, pagination |-> Pagination_new]

\* TransactionQueryBuilder::new
TransactionQueryBuilder_new(address, tx_type) ==
    [kind |-> "TransactionQueryBuilder", address |-> address,
     tx_type |-> tx_type, pagination |-> Pagination_new]

\* TokenTransferQueryBuilder::new
TokenTransferQueryBuilder_new(address, tx_type) ==
    [kind |-> "TokenTransferQueryBuilder", address |-> address,
     tx_type |-> tx_type, contract_address |-> None,
     pagination |-> Pagination_new]

\* InternalTxByAddressBuilder::new
InternalTxByAddressBuilder_new(address) ==
    [kind |-> "InternalTxByAddressBuilder", address |-> address,
     pagination |-> Pagination_new]

\* InternalTxByHashBuilder::new
InternalTxByHashBuilder_new(tx_hash) ==
    [kind |-> "InternalTxByHashBuilder", tx_hash |-> tx_hash]

\* variant of InternalTxByBlockRangeBuilder::new: the two blocks are written
\* to the pagination as well
InternalTxByBlockRangeBuilder_new_range_twice(start_block, end_block) ==
    [kind |-> "InternalTxByBlockRangeBuilder", start_block |-> start_block,
     end_block |-> end_block,
     pagination |-> Pagination_block_range(
                        Pagination_sort(Pagination_new, "Ascending"),
                        start_block, end_block)]

\* variant of InternalTxByBlockRangeBuilder::new: the pagination starts
\* without a sort
InternalTxByBlockRangeBuilder_new_unsorted(start_block, end_block) ==
    [kind |-> "InternalTxByBlockRangeBuilder", start_block |-> start_block,
     end_block |-> end_block, pagination |-> Pagination_new]

\* InternalTxByBlockRangeBuilder::new
InternalTxByBlockRangeBuilder_new(start_block, end_block) ==
    [kind |-> "InternalTxByBlockRangeBuilder", start_block |-> start_block,
     end_block |-> end_block,
     pagination |-> Pagination_sort(Pagination_new, "Ascending")]

\* ValidatedBlocksQueryBuilder::new
ValidatedBlocksQueryBuilder_new(address) ==
    [kind |-> "ValidatedBlocksQueryBuilder", address |-> address,
     pagination |-> Pagination_new]

\* BeaconWithdrawalsQueryBuilder::new
BeaconWithdrawalsQueryBuilder_new(address) ==
    [kind |-> "BeaconWithdrawalsQueryBuilder", address |-> address,
     start_block |-> None, end_block |-> None, pagination |-> Pagination_new]

\* HistoricalBalanceQueryBuilder::new
HistoricalBalanceQueryBuilder_new(address) ==
    [kind |-> "HistoricalBalanceQueryBuilder", address |-> address,
     block_number |-> None]

\* TransactionQueryBuilder::execute
TransactionQueryBuilder_execute(b) ==
    IF ~normalize_address(b.address).ok THEN normalize_address(b.address)
    ELSE Ok(make_request("account", TransactionType_as_str(b.tx_type),
                <<Param("address", normalize_address(b.address).val)>>
                    \o to_params(b.pagination)))

\* a variant that asks for ERC-20 transfers whatever the type
TokenTransferQueryBuilder_execute_tokentx(b) ==
    IF ~normalize_address(b.address).ok THEN normalize_address(b.address)
    ELSE IF b.contract_address # None /\ ~normalize_address(b.contract_address[1]).ok
    THEN normalize_address(b.contract_address[1])
    ELSE Ok(make_request("account", "tokentx",
                <<Param("address", normalize_address(b.address).val)>>
                    \o (IF b.contract_address # None
                        THEN <<Param("contractaddress",
                                     normalize_address(b.contract_address[1]).val)>>
                        ELSE <<>>)
                    \o to_params(b.pagination)))

\* TokenTransferQueryBuilder::execute
TokenTransferQueryBuilder_execute(b) ==
    IF ~normalize_address(b.address).ok THEN normalize_address(b.address)
    ELSE IF b.contract_address # None /\ ~normalize_address(b.contract_address[1]).ok
    THEN normalize_address(b.contract_address[1])
    ELSE Ok(make_request("account", TransactionType_as_str(b.tx_type),
                <<Param("address", normalize_address(b.address).val)>>
                    \o (IF b.contract_address # None
                        THEN <<Param("contractaddress",
                                     normalize_address(b.contract_address[1]).val)>>
                        ELSE <<>>)
                    \o to_params(b.pagination)))

\* InternalTxByAddressBuilder::execute
InternalTxByAddressBuilder_execute(b) ==
    IF ~normalize_address(b.address).ok THEN normalize_address(b.address)
    ELSE Ok(make_request("account", "txlistinternal",
                <<Param("address", normalize_address(b.address).val)>>
                    \o to_params(b.pagination)))

\* a variant that sends the default pagination of the other modes as well
InternalTxByHashBuilder_execute_paginated(b) ==
    Ok(make_request("account", "txlistinternal",
            <<Param("txhash", b.tx_hash)>>
                \o to_params(Pagination_sort(Pagination_new, "Ascending"))))

\* InternalTxByHashBuilder::execute
InternalTxByHashBuilder_execute(b) ==
    Ok(make_request("account", "txlistinternal", <<Param("txhash", b.tx_hash)>>))

\* InternalTxByBlockRangeBuilder::execute
InternalTxByBlockRangeBuilder_execute(b) ==
    Ok(make_request("account", "txlistinternal",
            <<Param("startblock", to_string(b.start_block)),
              Param("endblock", to_string(b.end_block))>>
                \o to_params(b.pagination)))

\* ValidatedBlocksQueryBuilder::execute
ValidatedBlocksQueryBuilder_execute(b) ==
    IF ~normalize_address(b.address).ok THEN normalize_address(b.address)
    ELSE Ok(make_request("account", "getminedblocks",
                <<Param("address", normalize_address(b.address).val)>>
                    \o to_params(b.pagination)))

\* BeaconWithdrawalsQueryBuilder::execute
BeaconWithdrawalsQueryBuilder_execute(b) ==
    IF ~normalize_address(b.address).ok THEN normalize_address(b.address)
    ELSE Ok(make_request("account", "beaconwithdrawal",
                <<Param("address", normalize_address(b.address).val)>>
                    \o (IF b.start_block # None
                        THEN <<Param("startblock", to_string(b.start_block[1]))>>
                        ELSE <<>>)
                    \o (IF b.end_block # None
                        THEN <<Param("endblock", to_string(b.end_block[1]))>>
                        ELSE <<>>)
                    \o to_params(b.pagination)))

\* a variant that leaves the tag out when no block was chosen
HistoricalBalanceQueryBuilder_execute_optional_tag(b) ==
    IF ~normalize_address(b.address).ok THEN normalize_address(b.address)
    ELSE Ok(make_request("account", "balance",
                <<Param("address", normalize_address(b.address).val)>>
                    \o (IF b.block_number # None
                        THEN <<Param("tag", to_string(b.block_number[1]))>>
                        ELSE <<>>)))

\* HistoricalBalanceQueryBuilder::execute
HistoricalBalanceQueryBuilder_execute(b) ==
    IF ~normalize_address(b.address).ok THEN normalize_address(b.address)
    ELSE Ok(make_request("account", "balance",
                <<Param("address", normalize_address(b.address).val),
                  Param("tag", IF b.block_number # None
                               THEN to_string(b.block_number[1]) ELSE Latest)>>))

\* the result type T each operation asks get::<T> for
ResultType(op) ==
    CASE op \in {"Accounts::balance", "Accounts::balance_at_block",
                 "HistoricalBalanceQueryBuilder::execute"} -> Balance
      [] op = "Accounts::balance_multi" -> TVec(Balance)
      [] op = "Accounts::token_balances" -> TVec(TokenBalance)
      [] op = "TransactionQueryBuilder::execute" -> TVec(Transaction)
      [] op = "TokenTransferQueryBuilder::execute" -> TVec(TokenTransfer)
      [] op \in {"InternalTxByAddressBuilder::execute",
                 "InternalTxByHashBuilder::execute",
                 "InternalTxByBlockRangeBuilder::execute"} -> TVec(InternalTransaction)
      [] op = "ValidatedBlocksQueryBuilder::execute" -> TVec(ValidatedBlock)
      [] op = "BeaconWithdrawalsQueryBuilder::execute" -> TVec(BeaconWithdrawal)
      [] op = "Contracts::get_abi" -> ContractAbi
      [] op = "Contracts::get_source_code" -> TVec(ContractSource)
      [] op = "Contracts::get_contract_creation" -> TVec(ContractCreation)
      [] op = "Contracts::check_verification_status" -> VerificationStatus
      [] op = "Contracts::check_proxy_verification_status" -> ProxyVerificationStatus
      [] op = "Transactions::get_execution_status" -> ContractExecutionStatus
      [] op = "Transactions::get_receipt_status" -> TransactionReceiptStatus

(***************************************************************************)
(* The inputs the model draws from.                                        *)
(***************************************************************************)
Prefix0x == <<"0", "x">>

\* well-formed addresses: lowercase, the same account in upper case, another
ValidLower == Prefix0x \o Rep("a", AddressLen - 4) \o <<"1", "f">>
ValidMixed == Prefix0x \o Rep("A", AddressLen - 4) \o <<"1", "F">>
ValidOther == Prefix0x \o Rep("7", AddressLen - 2)

\* strings the code rejects
UpperPrefix == <<"0", "X">> \o Rep("a", AddressLen - 2)
TooShort == Prefix0x \o Rep("a", AddressLen - 3)
TooLong == Prefix0x \o Rep("a", AddressLen - 1)
VeryShort == <<"0", "x", "1", "2", "3">>
NonHexLast == Prefix0x \o Rep("a", AddressLen - 3) \o <<"z">>
NonHexFirst == Prefix0x \o <<"Z">> \o Rep("a", AddressLen - 3)
NoPrefix == Rep("a", AddressLen - 2)
NoPrefixFull == Rep("a", AddressLen)
Only0x == Prefix0x
Empty == <<>>

ValidAddrs == {ValidLower, ValidMixed, ValidOther}
BadAddrs ==
    {UpperPrefix, TooShort, TooLong, VeryShort, NonHexLast, NonHexFirst,
     NoPrefix, NoPrefixFull, Only0x, Empty}
AddrInputs == ValidAddrs \cup BadAddrs

\* the characters put where a hex digit belongs
NonHexChars == {"g", "G", "x"}

\* s with the character at position i replaced by c
ReplaceAt(s, i, c) == [s EXCEPT ![i] = c]

\* a well-formed address in upper case behind the prefix 0X
UpperPrefixMixed == <<"0", "X">> \o Rep("A", AddressLen - 4) \o <<"1", "F">>

\* the strings given to the validation functions and to Address: the inputs
\* above, the upper-case prefix, and a well-formed address with one
\* character after the prefix replaced, at every position
AddressStrings ==
    AddrInputs \cup {UpperPrefixMixed}
    \cup {ReplaceAt(ValidLower, i, c) : i \in 3..AddressLen, c \in NonHexChars}

\* the addresses given to builders
BuilderAddrs == {ValidMixed, TooShort, NonHexLast}

\* transaction hashes given to by_hash
HashLower == Prefix0x \o Rep("b", TxHashLen - 2)
HashMixed == Prefix0x \o Rep("B", TxHashLen - 4) \o <<"1", "c">>
HashShort == <<"0", "x", "1", "2", "3", "4", "5", "6">>
HashNonHex == Prefix0x \o Rep("b", TxHashLen - 3) \o <<"z">>
HashNoPrefix == Rep("b", TxHashLen - 2)
HashInputs == {HashLower, HashMixed, HashShort, HashNonHex, HashNoPrefix}

\* one error of every variant of EtherscanError, Http with statuses on both
\* sides of 500
ErrorValues ==
    {[kind |-> k] : k \in {"MissingApiKey", "InvalidUrl", "HttpClient",
                            "InvalidBlock", "RateLimit", "Timeout",
                            "UnsupportedNetwork", "Internal"}}
    \cup {ErrRequest, ErrParse, ErrApi(<<"N", "O", "T", "O", "K">>),
          ErrResponse(<<"0">>), ErrInvalidAddress(Empty), ErrInvalidTxHash(Empty),
          ErrInvalidParams("empty")}
    \cup {ErrHttp(c, UnknownErrorText) : c \in {400, 404, 499, 500, 502, 599}}

\* the strings given to validate_tx_hash: the hashes above, one character too
\* short and too long, no prefix at full length, the prefix alone, nothing,
\* the upper-case prefix, and one character replaced at every position
HashStrings ==
    HashInputs
    \cup {Prefix0x \o Rep("b", TxHashLen - 3), Prefix0x \o Rep("b", TxHashLen - 1),
          Rep("b", TxHashLen), Only0x, Empty, <<"0", "X">> \o Rep("b", TxHashLen - 2)}
    \cup {ReplaceAt(HashLower, i, c) : i \in 3..TxHashLen, c \in NonHexChars}

Guids == {<<"g", "1">>, <<>>}

TagInputs == {TagLatest, TagEarliest, TagPending, TagBlock(12)}

\* address lists for a multi-address call whose cap is cap: of every length
\* from 0 to cap + MaxOver, all valid, or with one or two malformed entries at
\* any position
AddrLists(cap) ==
    LET lens == 0..(cap + MaxOver)
    IN  {[i \in 1..n |-> ValidLower] : n \in lens}
        \cup {[i \in 1..n |-> IF i % 2 = 1 THEN ValidMixed ELSE ValidOther] : n \in lens}
        \cup UNION {{[i \in 1..n |-> IF i = k THEN TooShort ELSE ValidMixed] : k \in 1..n}
                       : n \in lens}
        \cup UNION {{[i \in 1..n |-> IF i = k THEN NonHexLast
                                    ELSE IF i > k THEN VeryShort ELSE ValidOther]
                        : k \in 1..n} : n \in lens}

\* values given to the setters
PageVals == {2}
OffsetVals == {100}
StartVals == {5}
EndVals == {12}
BlockVals == {5, 12}
RangeVals == {<<5, 12>>, <<12, 5>>}
SortVals == {"Ascending", "Descending"}
ContractAddrs == {ValidMixed, TooShort}
TokenTxTypes == {"Token", "TokenNft", "Token1155"}

(***************************************************************************)
(* The responses the transport may deliver to a call expecting T.          *)
(***************************************************************************)
\* a JSON value that decodes as T
RECURSIVE Sample(_)
Sample(T) ==
    CASE T.t = "string" -> JStr(<<"a", "b">>)
      [] T.t = "u64" -> JStr(<<"1", "8">>)
      [] T.t = "optu64" -> JStr(<<"6">>)
      [] T.t = "vec" -> JArr(<<Sample(T.elem)>>)
      [] T.t = "struct" ->
            JObj([i \in 1..Len(T.fields) |->
                    Member(T.fields[i].name, Sample(T.fields[i].ty))])

Statuses == {<<"1">>, <<"0">>, <<"2">>}
MessageOf(status) ==
    IF status = <<"1">> THEN <<"O", "K">> ELSE <<"N", "O", "T", "O", "K">>
ErrorText == <<"E", "r", "r", "o", "r", "!">>

\* one ether in wei, as the balance action reports it
WeiText == <<"1">> \o Rep("0", 18)

\* what the server may put in the result field
ResultValues(T) == {JStr(ErrorText), JStr(WeiText), JArr(<<>>), JNull, Sample(T)}

Envelope(status, message, result) ==
    JObj(<<Member("status", status), Member("message", message),
           Member("result", result)>>)

\* the success envelope carrying a value of T
OkEnvelope(T) == Envelope(JStr(<<"1">>), JStr(<<"O", "K">>), Sample(T))

\* envelopes: every status with every result value, without a result field,
\* with a number as status, and written as an array
EnvelopeBodies(T) ==
    {Envelope(JStr(s), JStr(MessageOf(s)), r) : s \in Statuses, r \in ResultValues(T)}
    \cup {JObj(<<Member("status", JStr(s)), Member("message", JStr(MessageOf(s)))>>)
             : s \in Statuses}
    \cup {Envelope(JNum(1), JStr(<<"O", "K">>), Sample(T)),
          JArr(<<JStr(<<"0">>), JStr(MessageOf(<<"0">>)), Sample(T)>>)}

\* bodies that are no envelope: the bare payload, an empty array, not JSON
BareBodies(T) == {Sample(T), JArr(<<>>), NotJson}

Bodies(T) == EnvelopeBodies(T) \cup BareBodies(T)

SuccessCodes == {200}
ErrorCodes == {199, 300, 404, 500}

Responses(T) ==
    {NetError}
    \cup {Response(c, b) : c \in SuccessCodes, b \in Bodies(T) \cup {Unreadable}}
    \cup {Response(299, OkEnvelope(T))}
    \cup {Response(c, b) : c \in ErrorCodes, b \in {NotJson, OkEnvelope(T), Unreadable}}

\* the payloads of the two status lookups: success and failure of each
ExecutionPayloads ==
    {JObj(<<Member("isError", JStr(<<e>>)), Member("errDescription", JStr(d))>>)
        : e \in {"0", "1"}, d \in {<<>>}}
ReceiptPayloads == {JObj(<<Member("status", JStr(<<c>>))>>) : c \in {"0", "1"}}

\* what a status lookup may be answered with: a transport failure, an HTTP
\* error, a body that is not JSON, an error text or an empty list where the
\* payload is expected, and the payloads under status 1 and under status 0
LookupResponses(payloads) ==
    {NetError, Response(500, NotJson), Response(200, NotJson),
     Response(200, Envelope(JStr(<<"0">>), JStr(MessageOf(<<"0">>)), JStr(ErrorText))),
     Response(200, Envelope(JStr(<<"1">>), JStr(MessageOf(<<"1">>)), JArr(<<>>)))}
    \cup {Response(200, Envelope(JStr(st), JStr(MessageOf(st)), p))
             : st \in {<<"1">>, <<"0">>}, p \in payloads}

(***************************************************************************)
(* The state: one caller using the client.                                 *)
(*   pc      "idle", "building" (a builder is being configured),           *)
(*           "awaiting" (the GET is sent, the call is suspended), "done",  *)
(*           and "awaiting_execution", "awaiting_receipt", "batch_execution",*)
(*           "batch_receipt" while a status lookup of a combined call or of *)
(*           a batch is on its way                                         *)
(*   builder the builder being configured, or the one just executed        *)
(*   call    the operation called last and its arguments                   *)
(*   sent    the queries of the HTTP requests the call has issued          *)
(*   resp    the response delivered to the call                            *)
(*   result  what the call returned                                        *)
(*   steps   the decoding steps the call ran on the response               *)
(*   status  the TransactionStatus a combined status call is assembling,   *)
(*           or the statuses a batch has assembled so far                  *)
(*   lookups what the lookups of a combined status call or of a batch      *)
(*           returned, in order                                            *)
(* and, for callers that share one client:                                 *)
(*   client  the EtherscanClient: api_key, base_url, network               *)
(*   tasks   the state of each concurrent caller                           *)
(***************************************************************************)
VARIABLES pc, builder, call, sent, resp, result, steps, status, lookups,
          client, tasks

vars == <<pc, builder, call, sent, resp, result, steps, status, lookups,
          client, tasks>>

\* the state of the single caller
solo == <<pc, builder, call, sent, resp, result, steps, status, lookups>>

\* the state of the callers sharing a client
shared == <<client, tasks>>

\* the concurrent callers
NumTasks == 2
TaskIds == 1..NumTasks

\* Network::base_url of the main network
BaseUrl == "https://api.etherscan.io/api"

\* a Url: its text up to the query, and its query pairs
Url(base, query) == [base |-> base, query |-> query]

\* EtherscanClientBuilder::build: the client as constructed
NewClient ==
    [api_key |-> ApiKey, base_url |-> Url(BaseUrl, <<>>), network |-> "Mainnet"]

\* a caller that has no call under way
IdleTask == [pc |-> "idle"]

NoBuilder == [kind |-> "none"]
NoCall == [op |-> "none"]
NoResponse == [net |-> "none"]
Pending == Err([kind |-> "pending"])

Init ==
    /\ pc = "idle"
    /\ builder = NoBuilder
    /\ call = NoCall
    /\ sent = <<>>
    /\ resp = NoResponse
    /\ result = Pending
    /\ steps = <<>>
    /\ status = <<>>
    /\ lookups = <<>>
    /\ client = NewClient
    /\ tasks = [t \in TaskIds |-> IdleTask]

\* the caller is between calls
Free == pc = "idle"

\* operation op is called with args; outcome is what it does before awaiting
Begin(op, args, outcome) ==
    /\ UNCHANGED shared
    /\ call' = [op |-> op, args |-> args]
    /\ resp' = NoResponse
    /\ steps' = <<>>
    /\ status' = <<>>
    /\ lookups' = <<>>
    /\ IF outcome.ok
       THEN /\ sent' = <<outcome.val>>
            /\ result' = Pending
            /\ pc' = "awaiting"
       ELSE /\ sent' = <<>>
            /\ result' = outcome
            /\ pc' = "done"

\* a direct operation of Accounts or Contracts
Direct(op, args, outcome) ==
    /\ builder' = NoBuilder
    /\ Begin(op, args, outcome)

Accounts_balance ==
    /\ Free
    /\ \E a \in AddrInputs :
        Direct("Accounts::balance", <<a>>, balance(a))

Accounts_balance_at_block ==
    /\ Free
    /\ \E a \in AddrInputs, tag \in TagInputs :
        Direct("Accounts::balance_at_block", <<a>>, balance_at_block(a, tag))

Accounts_balance_multi ==
    /\ Free
    /\ \E list \in AddrLists(BalanceMultiMax) :
        Direct("Accounts::balance_multi", list, balance_multi(list))

Accounts_token_balances ==
    /\ Free
    /\ \E a \in AddrInputs :
        Direct("Accounts::token_balances", <<a>>, token_balances(a))

Contracts_get_abi ==
    /\ Free
    /\ \E a \in AddrInputs :
        Direct("Contracts::get_abi", <<a>>, get_abi(a))

Contracts_get_source_code ==
    /\ Free
    /\ \E a \in AddrInputs :
        Direct("Contracts::get_source_code", <<a>>, get_source_code(a))

Contracts_get_contract_creation ==
    /\ Free
    /\ \E list \in AddrLists(ContractCreationMax) :
        Direct("Contracts::get_contract_creation", list, get_contract_creation(list))

Contracts_check_verification_status ==
    /\ Free
    /\ \E g \in Guids :
        Direct("Contracts::check_verification_status", <<g>>,
               check_verification_status(g))

Contracts_check_proxy_verification_status ==
    /\ Free
    /\ \E g \in Guids :
        Direct("Contracts::check_proxy_verification_status", <<g>>,
               check_proxy_verification_status(g))

(***************************************************************************)
(* Builders: construction, setters, execute.                               *)
(***************************************************************************)
\* constructor op creates builder b; nothing is validated and nothing is sent
Construct(op, args, b) ==
    /\ UNCHANGED shared
    /\ builder' = b
    /\ pc' = "building"
    /\ call' = [op |-> op, args |-> args]
    /\ status' = <<>>
    /\ lookups' = <<>>
    /\ sent' = <<>>
    /\ resp' = NoResponse
    /\ result' = Pending
    /\ steps' = <<>>

\* Accounts::transactions
Accounts_transactions ==
    /\ Free
    /\ \E a \in BuilderAddrs :
        Construct("Accounts::transactions", <<a>>,
                  TransactionQueryBuilder_new(a, "Normal"))

\* the constructor of Accounts that fixes the transaction type ty
TokenTransferConstructor(ty) ==
    CASE ty = "Token" -> "Accounts::token_transfers"
      [] ty = "TokenNft" -> "Accounts::nft_transfers"
      [] ty = "Token1155" -> "Accounts::erc1155_transfers"

\* Accounts::token_transfers, nft_transfers, erc1155_transfers
Accounts_token_transfers ==
    /\ Free
    /\ \E a \in BuilderAddrs, ty \in TokenTxTypes :
        Construct(TokenTransferConstructor(ty), <<a>>,
                  TokenTransferQueryBuilder_new(a, ty))

\* Accounts::internal_transactions().by_address
Internal_by_address ==
    /\ Free
    /\ \E a \in BuilderAddrs :
        Construct("InternalTransactionQueryBuilder::by_address", <<a>>,
                  InternalTxByAddressBuilder_new(a))

\* Accounts::internal_transactions().by_hash
Internal_by_hash ==
    /\ Free
    /\ \E h \in HashInputs :
        Construct("InternalTransactionQueryBuilder::by_hash", <<h>>,
                  InternalTxByHashBuilder_new(h))

\* Accounts::internal_transactions().by_block_range
Internal_by_block_range ==
    /\ Free
    /\ \E r \in RangeVals :
        Construct("InternalTransactionQueryBuilder::by_block_range", r,
                  InternalTxByBlockRangeBuilder_new(r[1], r[2]))

\* Accounts::blocks_validated
Accounts_blocks_validated ==
    /\ Free
    /\ \E a \in BuilderAddrs :
        Construct("Accounts::blocks_validated", <<a>>,
                  ValidatedBlocksQueryBuilder_new(a))

\* Accounts::beacon_withdrawals
Accounts_beacon_withdrawals ==
    /\ Free
    /\ \E a \in BuilderAddrs :
        Construct("Accounts::beacon_withdrawals", <<a>>,
                  BeaconWithdrawalsQueryBuilder_new(a))

\* Accounts::historical_balance
Accounts_historical_balance ==
    /\ Free
    /\ \E a \in BuilderAddrs :
        Construct("Accounts::historical_balance", <<a>>,
                  HistoricalBalanceQueryBuilder_new(a))

\* the builder types that have a pagination field
Paginated ==
    {"TransactionQueryBuilder", "TokenTransferQueryBuilder",
     "InternalTxByAddressBuilder", "InternalTxByBlockRangeBuilder",
     "ValidatedBlocksQueryBuilder", "BeaconWithdrawalsQueryBuilder"}

\* the builder types whose block setters write the pagination
BlockPaginated ==
    {"TransactionQueryBuilder", "TokenTransferQueryBuilder",
     "InternalTxByAddressBuilder"}

\* setter name, called with args, replaces the builder by b
Configure(name, args, b) ==
    /\ UNCHANGED shared
    /\ pc = "building"
    /\ builder' = b
    /\ call' = [op |-> builder.kind \o "::" \o name, args |-> args]
    /\ UNCHANGED <<pc, sent, resp, result, steps, status, lookups>>

\* page(n) of every paginated builder
Builder_page ==
    \E n \in PageVals :
        /\ builder.kind \in Paginated
        /\ Configure("page", <<n>>, [builder EXCEPT !.pagination = Pagination_page(@, n)])

\* offset(n) of every paginated builder
Builder_offset ==
    \E n \in OffsetVals :
        /\ builder.kind \in Paginated
        /\ Configure("offset", <<n>>, [builder EXCEPT !.pagination = Pagination_offset(@, n)])

\* sort(s) of the builders that have it
Builder_sort ==
    \E so \in SortVals :
        /\ builder.kind \in Paginated \ {"ValidatedBlocksQueryBuilder"}
        /\ Configure("sort", <<so>>, [builder EXCEPT !.pagination = Pagination_sort(@, so)])

\* start_block(n): written to the pagination, or to the builder's own field
\* in BeaconWithdrawalsQueryBuilder
Builder_start_block ==
    \E n \in StartVals :
        \/ /\ builder.kind \in BlockPaginated
           /\ Configure("start_block", <<n>>, [builder EXCEPT !.pagination = Pagination_start_block(@, n)])
        \/ /\ builder.kind = "BeaconWithdrawalsQueryBuilder"
           /\ Configure("start_block", <<n>>, [builder EXCEPT !.start_block = Some(n)])

\* end_block(n)
Builder_end_block ==
    \E n \in EndVals :
        \/ /\ builder.kind \in BlockPaginated
           /\ Configure("end_block", <<n>>, [builder EXCEPT !.pagination = Pagination_end_block(@, n)])
        \/ /\ builder.kind = "BeaconWithdrawalsQueryBuilder"
           /\ Configure("end_block", <<n>>, [builder EXCEPT !.end_block = Some(n)])

\* block_range(start, end)
Builder_block_range ==
    \E r \in RangeVals :
        \/ /\ builder.kind \in BlockPaginated
           /\ Configure("block_range", r, [builder EXCEPT
                            !.pagination = Pagination_block_range(@, r[1], r[2])])
        \/ /\ builder.kind = "BeaconWithdrawalsQueryBuilder"
           /\ Configure("block_range", r, [builder EXCEPT !.start_block = Some(r[1]),
                                        !.end_block = Some(r[2])])

\* TokenTransferQueryBuilder::contract_address
Builder_contract_address ==
    \E a \in ContractAddrs :
        /\ builder.kind = "TokenTransferQueryBuilder"
        /\ Configure("contract_address", <<a>>, [builder EXCEPT !.contract_address = Some(a)])

\* HistoricalBalanceQueryBuilder::at_block
Builder_at_block ==
    \E n \in BlockVals :
        /\ builder.kind = "HistoricalBalanceQueryBuilder"
        /\ Configure("at_block", <<n>>, [builder EXCEPT !.block_number = Some(n)])

\* execute consumes the builder of type kind
Execute(kind, args, outcome) ==
    /\ builder.kind = kind
    /\ UNCHANGED builder
    /\ Begin(kind \o "::execute", args, outcome)

Execute_TransactionQueryBuilder ==
    /\ pc = "building"
    /\ Execute("TransactionQueryBuilder", <<builder.address>>,
               TransactionQueryBuilder_execute(builder))

Execute_TokenTransferQueryBuilder ==
    /\ pc = "building"
    /\ Execute("TokenTransferQueryBuilder", <<builder.address>>,
               TokenTransferQueryBuilder_execute(builder))

Execute_InternalTxByAddressBuilder ==
    /\ pc = "building"
    /\ Execute("InternalTxByAddressBuilder", <<builder.address>>,
               InternalTxByAddressBuilder_execute(builder))

Execute_InternalTxByHashBuilder ==
    /\ pc = "building"
    /\ Execute("InternalTxByHashBuilder", <<builder.tx_hash>>,
               InternalTxByHashBuilder_execute(builder))

Execute_InternalTxByBlockRangeBuilder ==
    /\ pc = "building"
    /\ Execute("InternalTxByBlockRangeBuilder", <<>>,
               InternalTxByBlockRangeBuilder_execute(builder))

Execute_ValidatedBlocksQueryBuilder ==
    /\ pc = "building"
    /\ Execute("ValidatedBlocksQueryBuilder", <<builder.address>>,
               ValidatedBlocksQueryBuilder_execute(builder))

Execute_BeaconWithdrawalsQueryBuilder ==
    /\ pc = "building"
    /\ Execute("BeaconWithdrawalsQueryBuilder", <<builder.address>>,
               BeaconWithdrawalsQueryBuilder_execute(builder))

Execute_HistoricalBalanceQueryBuilder ==
    /\ pc = "building"
    /\ Execute("HistoricalBalanceQueryBuilder", <<builder.address>>,
               HistoricalBalanceQueryBuilder_execute(builder))

(***************************************************************************)
(* The transport answers the request of the suspended call, and get        *)
(* finishes: the status check of make_request, then parse_response.        *)
(***************************************************************************)
Respond ==
    /\ UNCHANGED shared
    /\ pc = "awaiting"
    /\ \E r \in Responses(ResultType(call.op)) :
        /\ resp' = r
        /\ result' = get(ResultType(call.op), r).res
        /\ steps' = get(ResultType(call.op), r).steps
        /\ pc' = "done"
        /\ UNCHANGED <<builder, call, sent, status, lookups>>

\* a function of the library is applied to args and returns outcome; nothing
\* is sent
Apply(op, args, outcome) ==
    /\ UNCHANGED shared
    /\ builder' = NoBuilder
    /\ call' = [op |-> op, args |-> args]
    /\ sent' = <<>>
    /\ resp' = NoResponse
    /\ steps' = <<>>
    /\ status' = <<>>
    /\ lookups' = <<>>
    /\ result' = outcome
    /\ pc' = "done"

Validation_validate_address ==
    /\ Free
    /\ \E a \in AddressStrings :
          Apply("validation::validate_address", <<a>>, validate_address(a))

Validation_normalize_address ==
    /\ Free
    /\ \E a \in AddressStrings :
          Apply("validation::normalize_address", <<a>>, normalize_address(a))

Validation_validate_tx_hash ==
    /\ Free
    /\ \E h \in HashStrings :
          Apply("validation::validate_tx_hash", <<h>>, validate_tx_hash(h))

\* is_retryable is asked about an error
Error_is_retryable ==
    /\ Free
    /\ \E e \in ErrorValues : \E r \in is_retryable(e) :
          Apply("EtherscanError::is_retryable", <<e>>, Ok(r))

\* an Address is made from a string: Address::new, Address::from
Address_construct ==
    /\ Free
    /\ \E a \in AddressStrings :
          \/ Apply("Address::new", <<a>>, Ok(Address_new(a)))
          \/ Apply("Address::from", <<a>>, Ok(Address_from(a)))

\* an Address is read from a JSON value
Address_deserialized ==
    /\ Free
    /\ \E v \in {JStr(a) : a \in AddressStrings} \cup {JNull, JNum(1)} :
          Apply("Address::deserialize", <<v>>, Address_deserialize(v))

\* Transactions::get_execution_status
Transactions_get_execution_status ==
    /\ Free
    /\ \E h \in HashInputs :
          Direct("Transactions::get_execution_status", <<h>>, get_execution_status(h))

\* Transactions::get_receipt_status
Transactions_get_receipt_status ==
    /\ Free
    /\ \E h \in HashInputs :
          Direct("Transactions::get_receipt_status", <<h>>, get_receipt_status(h))

\* get_comprehensive_status from its second lookup on: st is the status
\* assembled so far, lk the lookups finished, snt the requests issued.  The
\* lookup either suspends on its request or fails before sending, and then
\* the call returns.
StartReceipt(op, st, lk, snt) ==
    LET second == get_receipt_status(st.tx_hash) IN
    IF second.ok
    THEN /\ sent' = Append(snt, second.val)
         /\ status' = <<st>>
         /\ lookups' = lk
         /\ result' = Pending
         /\ pc' = "awaiting_receipt"
    ELSE /\ sent' = snt
         /\ status' = <<record_receipt(st, second)>>
         /\ lookups' = Append(lk, second)
         /\ result' = combined_result(op, record_receipt(st, second))
         /\ pc' = "done"

\* get_comprehensive_status up to its first suspension; op is the operation
\* the caller invoked, which is_transaction_successful passes through
Combined(op, h) ==
    LET st == TransactionStatus_new(TxHash_new(h))
        first == get_execution_status(st.tx_hash) IN
    /\ UNCHANGED shared
    /\ builder' = NoBuilder
    /\ call' = [op |-> op, args |-> <<h>>]
    /\ resp' = NoResponse
    /\ steps' = <<>>
    /\ IF first.ok
       THEN /\ sent' = <<first.val>>
            /\ status' = <<st>>
            /\ lookups' = <<>>
            /\ result' = Pending
            /\ pc' = "awaiting_execution"
       ELSE StartReceipt(op, record_execution(st, first), <<first>>, <<>>)

Transactions_get_comprehensive_status ==
    /\ Free
    /\ \E h \in HashInputs : Combined("Transactions::get_comprehensive_status", h)

Transactions_is_transaction_successful ==
    /\ Free
    /\ \E h \in HashInputs : Combined("Transactions::is_transaction_successful", h)

\* the execution lookup of a combined call is answered; the receipt lookup
\* starts whatever the answer was
Respond_execution ==
    /\ UNCHANGED shared
    /\ pc = "awaiting_execution"
    /\ \E r \in LookupResponses(ExecutionPayloads) :
          LET first == get(ContractExecutionStatus, r).res IN
          StartReceipt(call.op, record_execution(status[1], first),
                       Append(lookups, first), sent)
    /\ UNCHANGED <<builder, call, resp, steps>>

\* the receipt lookup of a combined call is answered; the call returns
Respond_receipt ==
    /\ UNCHANGED shared
    /\ pc = "awaiting_receipt"
    /\ \E r \in LookupResponses(ReceiptPayloads) :
          LET second == get(TransactionReceiptStatus, r).res
              st == record_receipt(status[1], second) IN
          /\ status' = <<st>>
          /\ lookups' = Append(lookups, second)
          /\ result' = combined_result(call.op, st)
          /\ pc' = "done"
    /\ UNCHANGED <<builder, call, sent, resp, steps>>

\* the hashes added to a batch, the lists added in one call, and the answers
\* its lookups get
BatchHashes == {HashMixed, HashShort}
BatchLists == {<<>>, <<HashShort, HashMixed>>}
BatchResponses(payloads) ==
    {NetError, Response(500, NotJson)}
    \cup {Response(200, Envelope(JStr(<<"1">>), JStr(MessageOf(<<"1">>)), p))
             : p \in payloads}

\* Transactions::batch_status
Transactions_batch_status ==
    /\ Free
    /\ Construct("Transactions::batch_status", <<>>, TransactionStatusBuilder_new)

\* TransactionStatusBuilder::transaction
Builder_transaction ==
    \E h \in BatchHashes :
        /\ builder.kind = "TransactionStatusBuilder"
        /\ Len(builder.tx_hashes) < MaxHashes
        /\ Configure("transaction", <<h>>,
                     TransactionStatusBuilder_transaction(builder, h))

\* TransactionStatusBuilder::transactions
Builder_transactions ==
    \E hs \in BatchLists :
        /\ builder.kind = "TransactionStatusBuilder"
        /\ Len(builder.tx_hashes) + Len(hs) <= MaxHashes
        /\ Configure("transactions", hs,
                     TransactionStatusBuilder_transactions(builder, hs))

\* TransactionStatusBuilder::execution_only
Builder_execution_only ==
    /\ builder.kind = "TransactionStatusBuilder"
    /\ Configure("execution_only", <<>>,
                 TransactionStatusBuilder_execution_only(builder))

\* TransactionStatusBuilder::receipt_only
Builder_receipt_only ==
    /\ builder.kind = "TransactionStatusBuilder"
    /\ Configure("receipt_only", <<>>,
                 TransactionStatusBuilder_receipt_only(builder))

\* execute of the batch goes on from phase with the statuses sts, the
\* requests snt and the lookups lk: to its next request, or to its return
Proceed(sts, phase, snt, lk) ==
    LET nx == TransactionStatusBuilder_execute(builder, sts, phase) IN
    /\ status' = nx.status
    /\ lookups' = lk
    /\ pc' = nx.pc
    /\ IF nx.request = None
       THEN /\ sent' = snt
            /\ result' = Ok(nx.status)
       ELSE /\ sent' = Append(snt, nx.request[1])
            /\ result' = Pending

\* TransactionStatusBuilder::execute is called
Execute_TransactionStatusBuilder ==
    /\ pc = "building"
    /\ builder.kind = "TransactionStatusBuilder"
    /\ call' = [op |-> "TransactionStatusBuilder::execute", args |-> <<>>]
    /\ resp' = NoResponse
    /\ steps' = <<>>
    /\ Proceed(<<>>, "hash", <<>>, <<>>)
    /\ UNCHANGED builder
    /\ UNCHANGED shared

\* the execution lookup of the hash in work is answered
Respond_batch_execution ==
    /\ pc = "batch_execution"
    /\ \E r \in BatchResponses(ExecutionPayloads) :
          LET execution == get(ContractExecutionStatus, r).res IN
          Proceed([status EXCEPT ![Len(status)] = execute_store_execution(@, execution)],
                  "receipt", sent, Append(lookups, execution))
    /\ UNCHANGED <<builder, call, resp, steps>>
    /\ UNCHANGED shared

\* the receipt lookup of the hash in work is answered
Respond_batch_receipt ==
    /\ pc = "batch_receipt"
    /\ \E r \in BatchResponses(ReceiptPayloads) :
          LET receipt == get(TransactionReceiptStatus, r).res IN
          Proceed([status EXCEPT ![Len(status)] = execute_store_receipt(@, receipt)],
                  "hash", sent, Append(lookups, receipt))
    /\ UNCHANGED <<builder, call, resp, steps>>
    /\ UNCHANGED shared

\* the caller takes the result of the finished call and drops it
Return ==
    /\ UNCHANGED shared
    /\ pc = "done"
    /\ pc' = "idle"
    /\ builder' = NoBuilder
    /\ call' = NoCall
    /\ sent' = <<>>
    /\ resp' = NoResponse
    /\ result' = Pending
    /\ steps' = <<>>
    /\ status' = <<>>
    /\ lookups' = <<>>

(***************************************************************************)
(* Callers sharing one client.  Every caller holds &EtherscanClient; a     *)
(* call is entered, make_request clones base_url, appends the pairs and    *)
(* sends, the response is parsed, the caller takes the result.  The steps  *)
(* of different callers interleave freely.                                 *)
(***************************************************************************)
\* the calls the concurrent callers make
SharedCalls ==
    {[op |-> "Accounts::balance", args |-> <<a>>] : a \in {ValidMixed, TooShort}}
    \cup {[op |-> "Contracts::get_abi", args |-> <<ValidLower>>]}

\* what the operation of call c does before its request
SharedOutcome(c) ==
    CASE c.op = "Accounts::balance" -> balance(c.args[1])
      [] c.op = "Contracts::get_abi" -> get_abi(c.args[1])

\* the answers given to the concurrent callers
SharedResponses(T) ==
    {NetError, Response(500, NotJson), Response(200, OkEnvelope(T)),
     Response(200, Envelope(JStr(<<"0">>), JStr(MessageOf(<<"0">>)), Sample(T)))}

\* make_request: url.query_pairs_mut().append_pair for module, action, the
\* client's api key, and the parameters of the call
append_pairs(url, api_key, q) ==
    Url(url.base, url.query \o [q EXCEPT ![3] = Param("apikey", api_key)])

\* a variant in which the pairs are appended to the client's own base_url
client_after_request_in_place(c, url) == [c EXCEPT !.base_url = url]

\* the client after make_request built and sent url: make_request takes
\* &self and works on a clone of base_url, the client is as before
client_after_request(c, url) == c

\* caller t enters an operation; a refused input ends the call at once
Task_call(t) ==
    /\ tasks[t].pc = "idle"
    /\ \E c \in SharedCalls :
          tasks' = [tasks EXCEPT ![t] =
                      IF SharedOutcome(c).ok
                      THEN [pc |-> "entered", call |-> c]
                      ELSE [pc |-> "done", call |-> c, result |-> SharedOutcome(c)]]
    /\ UNCHANGED client
    /\ UNCHANGED solo

\* make_request of caller t clones the client's base_url
Task_clone_url(t) ==
    /\ tasks[t].pc = "entered"
    /\ tasks' = [tasks EXCEPT ![t] =
                  [pc |-> "cloned", call |-> @.call, url |-> client.base_url]]
    /\ UNCHANGED client
    /\ UNCHANGED solo

\* make_request of caller t appends the pairs to its clone and sends
Task_send(t) ==
    /\ tasks[t].pc = "cloned"
    /\ LET url == append_pairs(tasks[t].url, client.api_key,
                               SharedOutcome(tasks[t].call).val) IN
        /\ tasks' = [tasks EXCEPT ![t] =
                       [pc |-> "awaiting", call |-> @.call, request |-> url]]
        /\ client' = client_after_request(client, url)
    /\ UNCHANGED solo

\* the request of caller t is answered and get returns
Task_respond(t) ==
    /\ tasks[t].pc = "awaiting"
    /\ \E r \in SharedResponses(ResultType(tasks[t].call.op)) :
          tasks' = [tasks EXCEPT ![t] =
                      [pc |-> "done", call |-> @.call, request |-> @.request,
                       resp |-> r,
                       result |-> get(ResultType(@.call.op), r).res]]
    /\ UNCHANGED client
    /\ UNCHANGED solo

\* caller t takes its result
Task_return(t) ==
    /\ tasks[t].pc = "done"
    /\ tasks' = [tasks EXCEPT ![t] = IdleTask]
    /\ UNCHANGED client
    /\ UNCHANGED solo

NextShared ==
    \/ \E t \in TaskIds : Task_call(t)
    \/ \E t \in TaskIds : Task_clone_url(t)
    \/ \E t \in TaskIds : Task_send(t)
    \/ \E t \in TaskIds : Task_respond(t)
    \/ \E t \in TaskIds : Task_return(t)

SpecShared == Init /\ [][NextShared]_vars

Next ==
    \/ Accounts_balance
    \/ Accounts_balance_at_block
    \/ Accounts_balance_multi
    \/ Accounts_token_balances
    \/ Contracts_get_abi
    \/ Contracts_get_source_code
    \/ Contracts_get_contract_creation
    \/ Contracts_check_verification_status
    \/ Contracts_check_proxy_verification_status
    \/ Accounts_transactions
    \/ Accounts_token_transfers
    \/ Internal_by_address
    \/ Internal_by_hash
    \/ Internal_by_block_range
    \/ Accounts_blocks_validated
    \/ Accounts_beacon_withdrawals
    \/ Accounts_historical_balance
    \/ Builder_page
    \/ Builder_offset
    \/ Builder_sort
    \/ Builder_start_block
    \/ Builder_end_block
    \/ Builder_block_range
    \/ Builder_contract_address
    \/ Builder_at_block
    \/ Execute_TransactionQueryBuilder
    \/ Execute_TokenTransferQueryBuilder
    \/ Execute_InternalTxByAddressBuilder
    \/ Execute_InternalTxByHashBuilder
    \/ Execute_InternalTxByBlockRangeBuilder
    \/ Execute_ValidatedBlocksQueryBuilder
    \/ Execute_BeaconWithdrawalsQueryBuilder
    \/ Execute_HistoricalBalanceQueryBuilder
    \/ Validation_validate_address
    \/ Validation_normalize_address
    \/ Validation_validate_tx_hash
    \/ Error_is_retryable
    \/ Address_construct
    \/ Address_deserialized
    \/ Transactions_get_execution_status
    \/ Transactions_get_receipt_status
    \/ Transactions_get_comprehensive_status
    \/ Transactions_is_transaction_successful
    \/ Respond
    \/ Respond_execution
    \/ Transactions_batch_status
    \/ Builder_transaction
    \/ Builder_transactions
    \/ Builder_execution_only
    \/ Builder_receipt_only
    \/ Execute_TransactionStatusBuilder
    \/ Respond_receipt
    \/ Respond_batch_execution
    \/ Respond_batch_receipt
    \/ Return

Spec == Init /\ [][Next]_vars

(***************************************************************************)
(* Properties of response unwrapping (client.rs).                          *)
(***************************************************************************)
\* a response has been delivered to the finished call
Answered == pc = "done" /\ resp.net = "ok"

\* ... and it passed the status check of make_request
Accepted == Answered /\ is_success(resp.status)

\* the result type the finished call asked for
AskedType == ResultType(call.op)

\* body is a JSON object with a member status: "0"
StatusZero(body) ==
    /\ body.k = "obj"
    /\ \E i \in 1..Len(body.members) :
            body.members[i] = Member("status", JStr(<<"0">>))

\* the text of the message member of an envelope
MessageText(body) == MembersOf(body, "message")[1].val.s

\* C1: every 2xx body that is an envelope with status "0" yields the Api
\* error carrying the envelope's message, for every result type, also when
\* the result member is a string or is absent.
C1_StatusZeroIsApiError ==
    (Accepted /\ StatusZero(resp.body))
        => result = Err(ErrApi(MessageText(resp.body)))

\* C2: no body whose top-level status member is "0" makes the call return
\* Ok, whatever the result type.
C2_StatusZeroNeverOk ==
    (Answered /\ StatusZero(resp.body)) => ~result.ok

\* C3: when the body decodes as the envelope of the asked type, status alone
\* decides: "1" returns Ok of the decoded result, "0" the Api error with the
\* envelope's message, any other status the Response error naming that
\* status (and so never Ok).
C3_StatusDecides ==
    (Accepted /\ Decode(EtherscanResponse(AskedType), resp.body).ok) =>
        LET wrapper == Decode(EtherscanResponse(AskedType), resp.body).val
        IN  /\ wrapper[1] = <<"1">> => result = Ok(wrapper[3])
            /\ wrapper[1] = <<"0">> => result = Err(ErrApi(wrapper[2]))
            /\ wrapper[1] \notin {<<"1">>, <<"0">>} =>
                    result = Err(ErrResponse(<<"Unknown status: ", wrapper[1]>>))

\* a decodable envelope with status "2" was answered with the error naming "2"
C3_Witness ==
    /\ Accepted
    /\ Decode(EtherscanResponse(AskedType), resp.body).ok
    /\ Decode(EtherscanResponse(AskedType), resp.body).val[1] = <<"2">>
    /\ Decode(EtherscanResponse(AskedType), resp.body).val[3]
            = Decode(AskedType, Sample(AskedType)).val
    /\ result = Err(ErrResponse(<<"Unknown status: ", <<"2">>>>))

\* C4: a response with a non-success status code ends the call with the Http
\* error holding that code and the body text as received ("Unknown error"
\* when the text cannot be read), whatever the body is, and no decoding step
\* of parse_response runs.
C4_HttpStatusFirst ==
    (Answered /\ ~is_success(resp.status)) =>
        /\ result = Err(ErrHttp(resp.status,
                                IF resp.body = Unreadable THEN UnknownErrorText
                                ELSE resp.body))
        /\ steps = <<>>

\* a 404 whose body is a well-formed status "1" envelope became the Http error
C4_Witness ==
    /\ Answered
    /\ resp.status = 404
    /\ resp.body = OkEnvelope(AskedType)
    /\ result = Err(ErrHttp(404, OkEnvelope(AskedType)))
    /\ steps = <<>>

\* C5: on a readable 2xx body the direct decode as T runs exactly when the
\* envelope decode has failed, and after it; then a successful direct decode
\* returns Ok of the decoded value and a failed one the Parse error.
C5_TwoTierFallback ==
    (Accepted /\ resp.body # Unreadable) =>
        LET envelope == Decode(EtherscanResponse(AskedType), resp.body)
            direct == Decode(AskedType, resp.body)
        IN  IF envelope.ok
            THEN steps = <<"text", "envelope">>
            ELSE /\ steps = <<"text", "envelope", "direct">>
                 /\ result = IF direct.ok THEN Ok(direct.val) ELSE Err(ErrParse)

\* a bare payload was returned through the fallback
C5_Witness ==
    /\ Accepted
    /\ resp.body = Sample(AskedType)
    /\ ~Decode(EtherscanResponse(AskedType), resp.body).ok
    /\ steps = <<"text", "envelope", "direct">>
    /\ result = Ok(Decode(AskedType, resp.body).val)

(***************************************************************************)
(* Properties of input validation (endpoints/accounts.rs, contracts.rs).   *)
(***************************************************************************)
\* the operations that take one address
AddressOps ==
    {"Accounts::balance", "Accounts::balance_at_block",
     "Accounts::token_balances", "Contracts::get_abi",
     "Contracts::get_source_code", "TransactionQueryBuilder::execute",
     "TokenTransferQueryBuilder::execute",
     "InternalTxByAddressBuilder::execute",
     "ValidatedBlocksQueryBuilder::execute",
     "BeaconWithdrawalsQueryBuilder::execute",
     "HistoricalBalanceQueryBuilder::execute"}

\* the call ended before any request, with error e
RefusedWith(e) ==
    /\ pc = "done"
    /\ result = Err(e)
    /\ sent = <<>>
    /\ resp = NoResponse

\* every address of list passes validate_address
AllValid(list) == \A i \in 1..Len(list) : validate_address(list[i]).ok

\* the first address of list that fails validate_address
FirstMalformed(list) ==
    list[CHOOSE k \in 1..Len(list) :
            /\ ~validate_address(list[k]).ok
            /\ \A j \in 1..(k - 1) : validate_address(list[j]).ok]

\* list with every address lowercased, in the same order
Lowercased(list) == [i \in 1..Len(list) |-> ToLowercase(list[i])]

\* C6: an address-taking operation called with a malformed address returns
\* InvalidAddress carrying the input as given and issues no request; so does
\* a token-transfer query whose contract address is malformed.
C6_ValidationBeforeNetwork ==
    /\ (call.op \in AddressOps /\ ~validate_address(call.args[1]).ok)
            => RefusedWith(ErrInvalidAddress(call.args[1]))
    /\ (/\ call.op = "TokenTransferQueryBuilder::execute"
        /\ validate_address(call.args[1]).ok
        /\ builder.contract_address # None
        /\ ~validate_address(builder.contract_address[1]).ok)
            => RefusedWith(ErrInvalidAddress(builder.contract_address[1]))

\* a configured beacon-withdrawals query on an address with a non-hex digit
\* was refused
C6_Witness ==
    /\ call.op = "BeaconWithdrawalsQueryBuilder::execute"
    /\ call.args[1] = NonHexLast
    /\ builder.pagination # Pagination_new
    /\ RefusedWith(ErrInvalidAddress(NonHexLast))

\* C7: InternalTxByHashBuilder::execute refuses a malformed hash with the
\* transaction-hash error and no request, and sends a valid hash lowercased.
C7_HashValidated ==
    call.op = "InternalTxByHashBuilder::execute" =>
        IF ~validate_tx_hash(call.args[1]).ok
        THEN RefusedWith(ErrInvalidTxHash(call.args[1]))
        ELSE sent = <<make_request("account", "txlistinternal",
                        <<Param("txhash", ToLowercase(call.args[1]))>>)>>

\* C8: balance_multi refuses an empty list and a list of more than 20
\* addresses with InvalidParams and no request, and sends one request for
\* 1 to 20 valid addresses.
C8_BalanceMultiBounds ==
    call.op = "Accounts::balance_multi" =>
        /\ (call.args = <<>> \/ Len(call.args) > 20) =>
                /\ pc = "done"
                /\ ~result.ok
                /\ result.err.kind = "InvalidParams"
                /\ sent = <<>>
                /\ resp = NoResponse
        /\ (Len(call.args) \in 1..20 /\ AllValid(call.args)) => Len(sent) = 1

\* 25 identical valid addresses were refused before any request
C8_Witness ==
    /\ call.op = "Accounts::balance_multi"
    /\ call.args = [i \in 1..25 |-> ValidLower]
    /\ pc = "done"
    /\ result.err.kind = "InvalidParams"
    /\ sent = <<>>

\* C9: balance_multi with 1 to 20 addresses of which one is malformed returns
\* InvalidAddress for the first malformed one and sends nothing; with all
\* valid, its one request carries as address the comma-joined list of every
\* input lowercased, in input order.
C9_BalanceMultiAllOrNothing ==
    (call.op = "Accounts::balance_multi" /\ Len(call.args) \in 1..20) =>
        IF ~AllValid(call.args)
        THEN RefusedWith(ErrInvalidAddress(FirstMalformed(call.args)))
        ELSE sent = <<make_request("account", "balancemulti",
                        <<Param("address", Join(Lowercased(call.args))),
                          Param("tag", Latest)>>)>>

\* a list with a malformed address in the middle, valid ones before it and
\* another malformed one after it, was refused for the first malformed one
C9_Witness ==
    /\ call.op = "Accounts::balance_multi"
    /\ Len(call.args) = 20
    /\ call.args[1] = ValidOther
    /\ call.args[2] = NonHexLast
    /\ call.args[3] = VeryShort
    /\ RefusedWith(ErrInvalidAddress(NonHexLast))

\* C10: get_contract_creation refuses an empty list and a list of more than
\* 5 addresses with InvalidParams and no request, refuses 1 to 5 addresses
\* of which one is malformed with InvalidAddress and no request, and sends
\* one request for 1 to 5 valid addresses.
C10_ContractCreationBounds ==
    call.op = "Contracts::get_contract_creation" =>
        /\ (call.args = <<>> \/ Len(call.args) > 5) =>
                /\ pc = "done"
                /\ ~result.ok
                /\ result.err.kind = "InvalidParams"
                /\ sent = <<>>
                /\ resp = NoResponse
        /\ (Len(call.args) \in 1..5 /\ ~AllValid(call.args)) =>
                RefusedWith(ErrInvalidAddress(FirstMalformed(call.args)))
        /\ (Len(call.args) \in 1..5 /\ AllValid(call.args)) =>
                sent = <<make_request("contract", "getcontractcreation",
                            <<Param("contractaddresses",
                                    Join(Lowercased(call.args)))>>)>>

\* exactly 5 valid addresses went out in one request
C10_Witness ==
    /\ call.op = "Contracts::get_contract_creation"
    /\ Len(call.args) = 5
    /\ AllValid(call.args)
    /\ pc = "awaiting"
    /\ Len(sent) = 1


(***************************************************************************)
(* Transaction status.                                                     *)
(***************************************************************************)
\* the module and action a query goes to
Endpoint(q) == <<q[1].value, q[2].value>>

\* the query q carries a pair with this key
HasKey(q, key) == \E i \in 1..Len(q) : q[i].key = key

\* the value q carries for key
ValueOf(q, key) == q[CHOOSE i \in 1..Len(q) : q[i].key = key].value

\* the keys of the pairs the call added to the three of make_request
ExtraKeys(q) == [i \in 1..(Len(q) - 3) |-> q[i + 3].key]

\* the well-formed hashes among the inputs
ValidHashes == {HashLower, HashMixed}

\* C11: get_comprehensive_status always returns Ok with the status record of
\* the lowercased hash, in which a signal is present exactly when its lookup
\* returned Ok, whatever error the other or the same lookup ended in; and
\* for a well-formed hash the receipt lookup is issued second whatever the
\* execution lookup returned.
C11_ComprehensiveSwallowsFailures ==
    call.op = "Transactions::get_comprehensive_status" =>
        /\ pc = "done" =>
              /\ Len(lookups) = 2
              /\ result =
                    Ok([tx_hash |-> ToLowercase(call.args[1]),
                        contract_execution |->
                            IF lookups[1].ok THEN <<lookups[1].val>> ELSE <<>>,
                        receipt_status |->
                            IF lookups[2].ok THEN <<lookups[2].val>> ELSE <<>>])
        /\ (pc \in {"awaiting_receipt", "done"} /\ call.args[1] \in ValidHashes) =>
              /\ Len(lookups) >= 1
              /\ Len(sent) = 2
              /\ Endpoint(sent[1]) = <<"transaction", "getstatus">>
              /\ Endpoint(sent[2]) = <<"transaction", "gettxreceiptstatus">>

\* the execution lookup failed on an HTTP error, the receipt lookup was
\* issued all the same and succeeded, and the call returned Ok with the
\* receipt alone
C11_Witness ==
    /\ call.op = "Transactions::get_comprehensive_status"
    /\ pc = "done"
    /\ call.args[1] = HashMixed
    /\ Len(lookups) = 2
    /\ ~lookups[1].ok
    /\ lookups[1].err.kind = "Http"
    /\ lookups[2].ok
    /\ Len(sent) = 2
    /\ result.ok
    /\ result.val.contract_execution = None
    /\ result.val.receipt_status = Some(<<<<"1">>>>)

\* C12: is_transaction_successful returns the verdict of the signals that
\* are present: the receipt's (status is 1) when the receipt lookup
\* succeeded, whatever the execution status says; otherwise the execution
\* status's (isError is 0) when that lookup succeeded; nothing when neither
\* did.
C12_ReceiptOverridesExecution ==
    (call.op = "Transactions::is_transaction_successful" /\ pc = "done") =>
        /\ Len(lookups) = 2
        /\ result =
              Ok(IF lookups[2].ok THEN <<lookups[2].val[1] = <<"1">>>>
                 ELSE IF lookups[1].ok THEN <<lookups[1].val[1] = <<"0">>>>
                 ELSE <<>>)

\* the receipt reports success, the execution status an error, and the
\* verdict is success
C12_Witness ==
    /\ call.op = "Transactions::is_transaction_successful"
    /\ pc = "done"
    /\ Len(lookups) = 2
    /\ lookups[1] = Ok(<<<<"1">>, <<>>>>)
    /\ lookups[2] = Ok(<<<<"1">>>>)
    /\ status = <<[tx_hash |-> HashLower,
                   contract_execution |-> Some(<<<<"1">>, <<>>>>),
                   receipt_status |-> Some(<<<<"1">>>>)]>>
    /\ result = Ok(Some(TRUE))


(***************************************************************************)
(* Query parameters.                                                       *)
(***************************************************************************)
\* the number a decimal numeral denotes
RECURSIVE DecimalValue(_)
DecimalValue(ds) ==
    IF ds = <<>> THEN 0
    ELSE 10 * DecimalValue(SubSeq(ds, 1, Len(ds) - 1)) + DigitVal(ds[Len(ds)])

\* ds is a decimal numeral: digits only, no leading zero but for "0"
IsDecimal(ds) ==
    /\ ds # <<>>
    /\ \A i \in 1..Len(ds) : ds[i] \in Digits
    /\ Len(ds) > 1 => ds[1] # "0"

\* the keys of the pagination pairs in the order they are emitted
PaginationKeys == <<"page", "offset", "startblock", "endblock", "sort">>

\* the field of pagination p behind a key
PaginationField(p, key) ==
    CASE key = "page" -> p.page
      [] key = "offset" -> p.offset
      [] key = "startblock" -> p.start_block
      [] key = "endblock" -> p.end_block
      [] key = "sort" -> p.sort

\* the pairs are those of the set fields of p, in the order of PaginationKeys,
\* each number in decimal and the sort as asc or desc
IsParamsOf(pairs, p) ==
    LET IsSet(key) == PaginationField(p, key) # None IN
    /\ [i \in 1..Len(pairs) |-> pairs[i].key] = SelectSeq(PaginationKeys, IsSet)
    /\ \A i \in 1..Len(pairs) :
          IF pairs[i].key = "sort"
          THEN pairs[i].value =
                 (IF p.sort[1] = "Ascending" THEN <<"a", "s", "c">>
                  ELSE <<"d", "e", "s", "c">>)
          ELSE /\ IsDecimal(pairs[i].value)
               /\ DecimalValue(pairs[i].value) = PaginationField(p, pairs[i].key)[1]

\* the operations whose query is the address followed by the pagination
AddressThenPagination ==
    {"TransactionQueryBuilder::execute", "InternalTxByAddressBuilder::execute",
     "ValidatedBlocksQueryBuilder::execute"}

\* C13: the pagination pairs of a request are exactly one pair per set field
\* and none for an unset one, in the order page, offset, startblock,
\* endblock, sort, numbers in decimal and the sort as asc or desc, whatever
\* setters were called in whatever order; and each pagination setter leaves
\* the value it was called with in its field.
C13_PaginationParams ==
    /\ (call.op \in AddressThenPagination /\ sent # <<>>) =>
          IsParamsOf(SubSeq(sent[1], 5, Len(sent[1])), builder.pagination)
    /\ (pc = "building" /\ builder.kind \in BlockPaginated) =>
          /\ call.op = builder.kind \o "::page"
                => builder.pagination.page = <<call.args[1]>>
          /\ call.op = builder.kind \o "::offset"
                => builder.pagination.offset = <<call.args[1]>>
          /\ call.op = builder.kind \o "::sort"
                => builder.pagination.sort = <<call.args[1]>>
          /\ call.op = builder.kind \o "::start_block"
                => builder.pagination.start_block = <<call.args[1]>>
          /\ call.op = builder.kind \o "::end_block"
                => builder.pagination.end_block = <<call.args[1]>>
          /\ call.op = builder.kind \o "::block_range"
                => /\ builder.pagination.start_block = <<call.args[1]>>
                   /\ builder.pagination.end_block = <<call.args[2]>>

\* a transaction query with all five fields set, the block range given in
\* one call, was sent with the five pairs in order
C13_Witness ==
    /\ call.op = "TransactionQueryBuilder::execute"
    /\ pc = "awaiting"
    /\ ExtraKeys(sent[1]) =
          <<"address", "page", "offset", "startblock", "endblock", "sort">>
    /\ ValueOf(sent[1], "startblock") = <<"1", "2">>
    /\ ValueOf(sent[1], "endblock") = <<"5">>
    /\ ValueOf(sent[1], "sort") = <<"d", "e", "s", "c">>


(***************************************************************************)
(* Addresses and hashes as values.                                         *)
(***************************************************************************)
\* the ASCII hex digits
HexChars ==
    {"0", "1", "2", "3", "4", "5", "6", "7", "8", "9",
     "a", "b", "c", "d", "e", "f", "A", "B", "C", "D", "E", "F"}

\* s is 0x followed by hex digits, n characters in all
WellFormed(s, n) ==
    /\ Len(s) = n
    /\ s[1] = "0"
    /\ s[2] = "x"
    /\ \A i \in 3..n : s[i] \in HexChars

\* s is 0x or 0X followed by hex digits, n characters in all
WellFormedAnyPrefix(s, n) ==
    /\ Len(s) = n
    /\ s[1] = "0"
    /\ s[2] \in {"x", "X"}
    /\ \A i \in 3..n : s[i] \in HexChars

\* s holds no upper-case letter
IsLowercase(s) == \A i \in 1..Len(s) : s[i] = LowerChar(s[i])

\* C14: validate_address and normalize_address return InvalidAddress, and
\* validate_tx_hash InvalidTxHash, carrying the input, for every string that
\* is not 0x followed by exactly 40 (64) hex digits: one digit short or long,
\* a character that is no hex digit at any place behind the prefix, no
\* prefix, the prefix alone, the empty string.
C14_MalformedRejected ==
    pc = "done" =>
        /\ (/\ call.op \in {"validation::validate_address",
                             "validation::normalize_address"}
            /\ ~WellFormed(call.args[1], 42))
              => result = Err(ErrInvalidAddress(call.args[1]))
        /\ (/\ call.op = "validation::validate_tx_hash"
            /\ ~WellFormed(call.args[1], 66))
              => result = Err(ErrInvalidTxHash(call.args[1]))

\* validate_address refused an address whose twentieth digit is a g
C14_Witness ==
    /\ call.op = "validation::validate_address"
    /\ pc = "done"
    /\ call.args[1] = ReplaceAt(ValidLower, 22, "g")
    /\ result = Err(ErrInvalidAddress(ReplaceAt(ValidLower, 22, "g")))
    /\ sent = <<>>

\* C15: normalize_address accepts every string of 0x or 0X followed by
\* exactly 40 hex digits of any case and returns it lowercased; applied to
\* its own output it returns that output.
C15_NormalizeAnyCase ==
    (/\ call.op = "validation::normalize_address"
     /\ pc = "done"
     /\ WellFormedAnyPrefix(call.args[1], 42))
        => /\ result = Ok(ToLowercase(call.args[1]))
           /\ normalize_address(ToLowercase(call.args[1]))
                 = Ok(ToLowercase(call.args[1]))

\* C16: every Address made by Address::new, by a From conversion or by
\* deserialization is 42 characters long, 0x followed by 40 hex digits, and
\* lowercase.
C16_AddressCanonical ==
    (/\ call.op \in {"Address::new", "Address::from", "Address::deserialize"}
     /\ pc = "done"
     /\ result.ok)
        => /\ WellFormed(result.val, 42)
           /\ IsLowercase(result.val)


(***************************************************************************)
(* Requests per call.                                                      *)
(***************************************************************************)
\* the operations that end in one call of EtherscanClient::get
SingleOps ==
    AddressOps
    \cup {"Accounts::balance_multi", "Contracts::get_contract_creation",
          "InternalTxByHashBuilder::execute",
          "InternalTxByBlockRangeBuilder::execute",
          "Contracts::check_verification_status",
          "Contracts::check_proxy_verification_status",
          "Transactions::get_execution_status",
          "Transactions::get_receipt_status"}

\* the input of the call under way is one its operation is to accept:
\* addresses and hashes well-formed, address lists within their bounds
InputValid ==
    CASE call.op \in AddressOps ->
            /\ WellFormed(call.args[1], 42)
            /\ (/\ call.op = "TokenTransferQueryBuilder::execute"
                /\ builder.contract_address # None)
                  => WellFormed(builder.contract_address[1], 42)
      [] call.op = "Accounts::balance_multi" ->
            /\ Len(call.args) \in 1..20
            /\ \A i \in 1..Len(call.args) : WellFormed(call.args[i], 42)
      [] call.op = "Contracts::get_contract_creation" ->
            /\ Len(call.args) \in 1..5
            /\ \A i \in 1..Len(call.args) : WellFormed(call.args[i], 42)
      [] call.op \in {"InternalTxByHashBuilder::execute",
                      "Transactions::get_execution_status",
                      "Transactions::get_receipt_status"} ->
            WellFormed(call.args[1], 66)
      [] OTHER -> TRUE

\* C17: a call of a single-endpoint operation has issued exactly one request
\* when its input is valid and none when it is not, and it never issues a
\* second one, whatever the answer to the first.
C17_OneRequestPerCall ==
    (call.op \in SingleOps /\ pc \in {"awaiting", "done"}) =>
        Len(sent) = (IF InputValid THEN 1 ELSE 0)


(***************************************************************************)
(* Request shapes of the builders.                                         *)
(***************************************************************************)
\* the set of keys the call added to the three of make_request
ExtraKeySet(q) == {ExtraKeys(q)[i] : i \in 1..Len(ExtraKeys(q))}

\* how many pairs of q carry this key
KeyCount(q, key) == Cardinality({i \in 1..Len(q) : q[i].key = key})

\* C18: every request of an internal-transaction query goes to
\* account/txlistinternal in the shape of its mode alone: by address with
\* the address and no txhash; by hash with the txhash and nothing else, no
\* address and no pagination, block or sort pair; by block range with one
\* startblock and one endblock, those of the constructor, and neither
\* address nor txhash.
C18_InternalModesExclusive ==
    \A k \in 1..Len(sent) :
        /\ call.op = "InternalTxByAddressBuilder::execute" =>
              /\ Endpoint(sent[k]) = <<"account", "txlistinternal">>
              /\ ExtraKeys(sent[k])[1] = "address"
              /\ KeyCount(sent[k], "address") = 1
              /\ ExtraKeySet(sent[k]) \subseteq
                    {"address", "page", "offset", "startblock", "endblock", "sort"}
        /\ call.op = "InternalTxByHashBuilder::execute" =>
              /\ Endpoint(sent[k]) = <<"account", "txlistinternal">>
              /\ ExtraKeys(sent[k]) = <<"txhash">>
        /\ call.op = "InternalTxByBlockRangeBuilder::execute" =>
              /\ Endpoint(sent[k]) = <<"account", "txlistinternal">>
              /\ KeyCount(sent[k], "startblock") = 1
              /\ KeyCount(sent[k], "endblock") = 1
              /\ DecimalValue(ValueOf(sent[k], "startblock")) = builder.start_block
              /\ DecimalValue(ValueOf(sent[k], "endblock")) = builder.end_block
              /\ ExtraKeySet(sent[k]) \subseteq
                    {"startblock", "endblock", "page", "offset", "sort"}

\* a by-hash query was sent with its hash as the only pair of its own
C18_Witness ==
    /\ call.op = "InternalTxByHashBuilder::execute"
    /\ pc = "awaiting"
    /\ Len(sent) = 1
    /\ sent[1] = <<Param("module", "account"), Param("action", "txlistinternal"),
                   Param("apikey", ApiKey), Param("txhash", HashLower)>>


\* the historical-balance builder as its constructor, at_block and execute
\* leave it: no block chosen at first, the block of the call after at_block,
\* and a request to account/balance for the lowercased address whose tag is
\* the chosen block in decimal, or latest when none was chosen
HistoricalBalanceShape ==
    /\ call.op = "Accounts::historical_balance" => builder.block_number = None
    /\ call.op = "HistoricalBalanceQueryBuilder::at_block" =>
          builder.block_number = <<call.args[1]>>
    /\ (call.op = "HistoricalBalanceQueryBuilder::execute" /\ sent # <<>>) =>
          /\ Len(sent) = 1
          /\ Endpoint(sent[1]) = <<"account", "balance">>
          /\ ExtraKeys(sent[1]) = <<"address", "tag">>
          /\ ValueOf(sent[1], "address") = ToLowercase(call.args[1])
          /\ IF builder.block_number = None
             THEN ValueOf(sent[1], "tag") = <<"l", "a", "t", "e", "s", "t">>
             ELSE /\ IsDecimal(ValueOf(sent[1], "tag"))
                  /\ DecimalValue(ValueOf(sent[1], "tag")) = builder.block_number[1]

\* the chosen block of a historical-balance builder changes in at_block only
BlockChosenByAtBlock ==
    (/\ builder.kind = "HistoricalBalanceQueryBuilder"
     /\ builder'.kind = "HistoricalBalanceQueryBuilder"
     /\ builder'.block_number # builder.block_number)
        => call'.op = "HistoricalBalanceQueryBuilder::at_block"

\* C19: HistoricalBalanceQueryBuilder::execute always sends a tag to
\* account/balance with the lowercased address: the block of the last
\* at_block call in decimal, and latest when at_block was never called.
C19_HistoricalTag == [](HistoricalBalanceShape) /\ [][BlockChosenByAtBlock]_vars

\* a historical-balance query for a mixed-case address at block 12 was sent
C19_Witness ==
    /\ call.op = "HistoricalBalanceQueryBuilder::execute"
    /\ pc = "awaiting"
    /\ call.args[1] = ValidMixed
    /\ builder.block_number = Some(12)
    /\ sent = <<make_request("account", "balance",
                   <<Param("address", ValidLower), Param("tag", <<"1", "2">>)>>)>>


\* the action each token-transfer constructor stands for
TokenAction(tx_type) ==
    CASE tx_type = "Token" -> "tokentx"
      [] tx_type = "TokenNft" -> "tokennfttx"
      [] tx_type = "Token1155" -> "token1155tx"

\* the token-transfer builder as its constructors, contract_address and
\* execute leave it
TokenTransferShape ==
    /\ call.op = "Accounts::token_transfers" =>
          builder.tx_type = "Token" /\ builder.contract_address = None
    /\ call.op = "Accounts::nft_transfers" =>
          builder.tx_type = "TokenNft" /\ builder.contract_address = None
    /\ call.op = "Accounts::erc1155_transfers" =>
          builder.tx_type = "Token1155" /\ builder.contract_address = None
    /\ call.op = "TokenTransferQueryBuilder::contract_address" =>
          builder.contract_address = <<call.args[1]>>
    /\ (call.op = "TokenTransferQueryBuilder::execute" /\ sent # <<>>) =>
          /\ Len(sent) = 1
          /\ Endpoint(sent[1]) = <<"account", TokenAction(builder.tx_type)>>
          /\ ValueOf(sent[1], "address") = ToLowercase(call.args[1])
          /\ IF builder.contract_address = None
             THEN ~HasKey(sent[1], "contractaddress")
             ELSE /\ WellFormed(builder.contract_address[1], 42)
                  /\ KeyCount(sent[1], "contractaddress") = 1
                  /\ ValueOf(sent[1], "contractaddress")
                        = ToLowercase(builder.contract_address[1])
    /\ (/\ call.op = "TokenTransferQueryBuilder::execute"
        /\ WellFormed(call.args[1], 42)
        /\ builder.contract_address # None
        /\ ~WellFormed(builder.contract_address[1], 42)) =>
          RefusedWith(ErrInvalidAddress(builder.contract_address[1]))

\* no step on a token-transfer builder changes its type, and only
\* contract_address changes its filter
TokenTypeFixed ==
    (/\ builder.kind = "TokenTransferQueryBuilder"
     /\ builder'.kind = "TokenTransferQueryBuilder") =>
        /\ builder'.tx_type = builder.tx_type
        /\ builder'.contract_address # builder.contract_address
              => call'.op = "TokenTransferQueryBuilder::contract_address"

\* C20: token_transfers, nft_transfers and erc1155_transfers execute against
\* account/tokentx, tokennfttx and token1155tx, and no setter changes that;
\* the contract-address filter is validated and lowercased like the address,
\* a malformed one gives InvalidAddress and no request, and a query without
\* filter carries no contractaddress pair.
C20_TokenTransferAction == [](TokenTransferShape) /\ [][TokenTypeFixed]_vars

\* an NFT-transfer query with a mixed-case filter and a page was sent to
\* tokennfttx with the filter lowercased
C20_Witness ==
    /\ call.op = "TokenTransferQueryBuilder::execute"
    /\ pc = "awaiting"
    /\ builder.tx_type = "TokenNft"
    /\ builder.contract_address = Some(ValidMixed)
    /\ builder.pagination.page # None
    /\ Endpoint(sent[1]) = <<"account", "tokennfttx">>
    /\ ValueOf(sent[1], "contractaddress") = ValidLower


(***************************************************************************)
(* Errors.                                                                 *)
(***************************************************************************)
\* C21: is_retryable answers true exactly for Request, Timeout, RateLimit
\* and Http with a status of 500 or more, and false for Http below 500 and
\* for every other variant.
C21_RetryClassification ==
    (call.op = "EtherscanError::is_retryable" /\ pc = "done") =>
        result = Ok(\/ call.args[1].kind \in {"Request", "Timeout", "RateLimit"}
                    \/ /\ call.args[1].kind = "Http"
                       /\ call.args[1].status >= 500)

\* C22: Accounts::balance answered with a 2xx response whose body is the
\* status 1 envelope with the decimal string 1000000000000000000 as result
\* returns Ok with a balance of that many wei.
C22_BalanceUnwrapped ==
    (/\ call.op = "Accounts::balance"
     /\ Accepted
     /\ resp.body = Envelope(JStr(<<"1">>), JStr(<<"O", "K">>), JStr(WeiText)))
        => /\ result.ok
           /\ Balance_wei(result.val) = WeiText


(***************************************************************************)
(* Sharing the client.                                                     *)
(***************************************************************************)
\* the request the call c issues when it runs alone on the new client
AloneRequest(c) == Url(BaseUrl, SharedOutcome(c).val)

\* C23: whatever the interleaving of the callers sharing a client, the
\* client's api_key, base_url and network stay as constructed, and each call
\* builds the request and returns the result it builds and returns when it
\* runs alone.
C23_ClientShared ==
    /\ client = [api_key |-> ApiKey, base_url |-> Url(BaseUrl, <<>>),
                 network |-> "Mainnet"]
    /\ \A t \in TaskIds :
          /\ tasks[t].pc = "awaiting" => tasks[t].request = AloneRequest(tasks[t].call)
          /\ tasks[t].pc = "done" =>
                IF SharedOutcome(tasks[t].call).ok
                THEN /\ tasks[t].request = AloneRequest(tasks[t].call)
                     /\ tasks[t].result =
                           get(ResultType(tasks[t].call.op), tasks[t].resp).res
                ELSE tasks[t].result = SharedOutcome(tasks[t].call)

\* two callers, one asking a balance and one an ABI, have their requests on
\* their way at the same time
C23_Witness ==
    /\ tasks[1].pc = "awaiting"
    /\ tasks[2].pc = "awaiting"
    /\ tasks[1].call.op = "Accounts::balance"
    /\ tasks[2].call.op = "Contracts::get_abi"
    /\ tasks[1].request # tasks[2].request


(***************************************************************************)
(* The order of the parameters of a request.                               *)
(***************************************************************************)
\* the (module, action) pair of the k-th request of the operation under way
FixedPair(k) ==
    CASE call.op \in {"Accounts::balance", "Accounts::balance_at_block",
                      "HistoricalBalanceQueryBuilder::execute"} ->
            <<"account", "balance">>
      [] call.op = "Accounts::balance_multi" -> <<"account", "balancemulti">>
      [] call.op = "Accounts::token_balances" -> <<"account", "tokenlist">>
      [] call.op = "TransactionQueryBuilder::execute" -> <<"account", "txlist">>
      [] call.op = "TokenTransferQueryBuilder::execute" ->
            <<"account", TokenAction(builder.tx_type)>>
      [] call.op \in {"InternalTxByAddressBuilder::execute",
                      "InternalTxByHashBuilder::execute",
                      "InternalTxByBlockRangeBuilder::execute"} ->
            <<"account", "txlistinternal">>
      [] call.op = "ValidatedBlocksQueryBuilder::execute" ->
            <<"account", "getminedblocks">>
      [] call.op = "BeaconWithdrawalsQueryBuilder::execute" ->
            <<"account", "beaconwithdrawal">>
      [] call.op = "Contracts::get_abi" -> <<"contract", "getabi">>
      [] call.op = "Contracts::get_source_code" -> <<"contract", "getsourcecode">>
      [] call.op = "Contracts::get_contract_creation" ->
            <<"contract", "getcontractcreation">>
      [] call.op = "Contracts::check_verification_status" ->
            <<"contract", "checkverifystatus">>
      [] call.op = "Contracts::check_proxy_verification_status" ->
            <<"contract", "checkproxyverification">>
      [] call.op = "Transactions::get_execution_status" ->
            <<"transaction", "getstatus">>
      [] call.op = "Transactions::get_receipt_status" ->
            <<"transaction", "gettxreceiptstatus">>
      [] call.op \in {"Transactions::get_comprehensive_status",
                      "Transactions::is_transaction_successful"} ->
            <<"transaction", IF k = 1 THEN "getstatus" ELSE "gettxreceiptstatus">>
      [] call.op = "TransactionStatusBuilder::execute" ->
            <<"transaction",
              IF builder.check_execution /\ (~builder.check_receipt \/ k % 2 = 1)
              THEN "getstatus" ELSE "gettxreceiptstatus">>

\* the keys of the identifying parameters of the builder under way: its
\* address and contract filter, its hash, or its block range
IdentifyingKeys ==
    CASE builder.kind \in {"TransactionQueryBuilder", "InternalTxByAddressBuilder",
                           "ValidatedBlocksQueryBuilder"} -> <<"address">>
      [] builder.kind = "TokenTransferQueryBuilder" ->
            IF builder.contract_address = None THEN <<"address">>
            ELSE <<"address", "contractaddress">>
      [] builder.kind \in {"InternalTxByHashBuilder", "TransactionStatusBuilder"} ->
            <<"txhash">>
      [] builder.kind = "InternalTxByBlockRangeBuilder" ->
            <<"startblock", "endblock">>
      [] builder.kind = "BeaconWithdrawalsQueryBuilder" ->
            <<"address">>
            \o (IF builder.start_block = None THEN <<>> ELSE <<"startblock">>)
            \o (IF builder.end_block = None THEN <<>> ELSE <<"endblock">>)
      [] builder.kind = "HistoricalBalanceQueryBuilder" -> <<"address", "tag">>

\* the pagination of the builder under way, empty for a builder without one
PaginationOf ==
    IF builder.kind \in {"InternalTxByHashBuilder", "HistoricalBalanceQueryBuilder",
                        "TransactionStatusBuilder"}
    THEN [page |-> None, offset |-> None, start_block |-> None,
          end_block |-> None, sort |-> None]
    ELSE builder.pagination

\* C24: every request starts with module, action and apikey, each once and
\* the apikey the configured key, to the fixed (module, action) pair of the
\* operation called (of the check in turn, in a batch of status lookups); a
\* builder's request goes on with its identifying parameters (the address,
\* then the contract filter when set; the hash; the block range) and ends
\* with the pagination pairs in the order page, offset, startblock,
\* endblock, sort.
C24_ParameterOrder ==
    \A k \in 1..Len(sent) :
        LET q == sent[k] IN
        /\ Len(q) >= 3
        /\ <<q[1].key, q[2].key, q[3].key>> = <<"module", "action", "apikey">>
        /\ q[3].value = <<"k", "e", "y">>
        /\ \A key \in {"module", "action", "apikey"} : KeyCount(q, key) = 1
        /\ Endpoint(q) = FixedPair(k)
        /\ builder.kind # "none" =>
              LET n == Len(IdentifyingKeys) IN
              /\ Len(q) >= 3 + n
              /\ SubSeq(ExtraKeys(q), 1, n) = IdentifyingKeys
              /\ IsParamsOf(SubSeq(q, 4 + n, Len(q)), PaginationOf)

\* a token-transfer query with a contract filter, an end block, a page and a
\* sort was sent: address, contractaddress, then page, endblock, sort
C24_Witness ==
    /\ call.op = "TokenTransferQueryBuilder::execute"
    /\ pc = "awaiting"
    /\ Len(sent) = 1
    /\ [i \in 1..Len(sent[1]) |-> sent[1][i].key] =
          <<"module", "action", "apikey", "address", "contractaddress",
            "page", "endblock", "sort">>


(***************************************************************************)
(* Internal transactions by block range.                                   *)
(***************************************************************************)
\* the by-block-range builder as by_block_range, page, offset, sort and
\* execute leave it: the two blocks of the constructor with an ascending
\* sort and neither page nor offset, the value of a setter in its field, and
\* always one request, with startblock and endblock in decimal, page and
\* offset when set, and the sort of the builder
BlockRangeShape ==
    /\ call.op = "InternalTransactionQueryBuilder::by_block_range" =>
          /\ builder.start_block = call.args[1]
          /\ builder.end_block = call.args[2]
          /\ builder.pagination.sort = <<"Ascending">>
          /\ builder.pagination.page = <<>>
          /\ builder.pagination.offset = <<>>
    /\ call.op = "InternalTxByBlockRangeBuilder::sort" =>
          builder.pagination.sort = <<call.args[1]>>
    /\ call.op = "InternalTxByBlockRangeBuilder::page" =>
          builder.pagination.page = <<call.args[1]>>
    /\ call.op = "InternalTxByBlockRangeBuilder::offset" =>
          builder.pagination.offset = <<call.args[1]>>
    /\ (call.op = "InternalTxByBlockRangeBuilder::execute"
        /\ pc \in {"awaiting", "done"}) =>
          /\ Len(sent) = 1
          /\ ExtraKeys(sent[1]) =
                <<"startblock", "endblock">>
                \o (IF builder.pagination.page = <<>> THEN <<>> ELSE <<"page">>)
                \o (IF builder.pagination.offset = <<>> THEN <<>> ELSE <<"offset">>)
                \o <<"sort">>
          /\ IsDecimal(ValueOf(sent[1], "startblock"))
          /\ DecimalValue(ValueOf(sent[1], "startblock")) = builder.start_block
          /\ IsDecimal(ValueOf(sent[1], "endblock"))
          /\ DecimalValue(ValueOf(sent[1], "endblock")) = builder.end_block
          /\ ValueOf(sent[1], "sort") =
                (IF builder.pagination.sort = <<"Ascending">>
                 THEN <<"a", "s", "c">> ELSE <<"d", "e", "s", "c">>)
          /\ builder.pagination.page # <<>> =>
                DecimalValue(ValueOf(sent[1], "page")) = builder.pagination.page[1]
          /\ builder.pagination.offset # <<>> =>
                DecimalValue(ValueOf(sent[1], "offset")) = builder.pagination.offset[1]

\* no step on a by-block-range builder changes its two blocks, and its
\* sort, page and offset change in the setter of that name only
BlockRangeFrame ==
    (/\ builder.kind = "InternalTxByBlockRangeBuilder"
     /\ builder'.kind = "InternalTxByBlockRangeBuilder") =>
        /\ builder'.start_block = builder.start_block
        /\ builder'.end_block = builder.end_block
        /\ builder'.pagination.sort # builder.pagination.sort
              => call'.op = "InternalTxByBlockRangeBuilder::sort"
        /\ builder'.pagination.page # builder.pagination.page
              => call'.op = "InternalTxByBlockRangeBuilder::page"
        /\ builder'.pagination.offset # builder.pagination.offset
              => call'.op = "InternalTxByBlockRangeBuilder::offset"

AddressConstructors ==
    {"Accounts::transactions", "Accounts::token_transfers",
     "Accounts::nft_transfers", "Accounts::erc1155_transfers",
     "InternalTransactionQueryBuilder::by_address", "Accounts::blocks_validated",
     "Accounts::beacon_withdrawals", "Accounts::historical_balance"}

\* a constructor called with any string gives a builder holding that very
\* string, and a setter leaves its argument in its field
StoredAsGiven ==
    /\ call.op \in AddressConstructors =>
          pc = "building" /\ builder.address = call.args[1]
    /\ call.op = "InternalTransactionQueryBuilder::by_hash" =>
          pc = "building" /\ builder.tx_hash = call.args[1]
    /\ (pc = "building" /\ builder.kind \in Paginated) =>
          /\ call.op = builder.kind \o "::page" =>
                builder.pagination.page = <<call.args[1]>>
          /\ call.op = builder.kind \o "::offset" =>
                builder.pagination.offset = <<call.args[1]>>
          /\ call.op = builder.kind \o "::sort" =>
                builder.pagination.sort = <<call.args[1]>>
          /\ call.op = builder.kind \o "::start_block" =>
                <<call.args[1]>> =
                   (IF builder.kind = "BeaconWithdrawalsQueryBuilder"
                    THEN builder.start_block ELSE builder.pagination.start_block)
          /\ call.op = builder.kind \o "::end_block" =>
                <<call.args[1]>> =
                   (IF builder.kind = "BeaconWithdrawalsQueryBuilder"
                    THEN builder.end_block ELSE builder.pagination.end_block)
          /\ call.op = builder.kind \o "::block_range" =>
                <<<<call.args[1]>>, <<call.args[2]>>>> =
                   (IF builder.kind = "BeaconWithdrawalsQueryBuilder"
                    THEN <<builder.start_block, builder.end_block>>
                    ELSE <<builder.pagination.start_block,
                           builder.pagination.end_block>>)

\* the setters that may change field f of a builder or of its pagination
SetterOf(f) ==
    CASE f \in {"page", "offset", "sort", "contract_address"} -> {f}
      [] f = "start_block" -> {"start_block", "block_range"}
      [] f = "end_block" -> {"end_block", "block_range"}
      [] f = "block_number" -> {"at_block"}
      [] f = "tx_hashes" -> {"transaction", "transactions"}
      [] f \in {"check_execution", "check_receipt"} ->
            {"execution_only", "receipt_only"}
      [] OTHER -> {}

\* a step that keeps the builder changes no field but the one of the setter
\* called: never the address, the hash or the transaction type, the contract
\* filter in contract_address only, and each pagination field in its own
\* setter only, the two blocks also in block_range
SettersFrame ==
    (pc = "building" /\ builder'.kind = builder.kind) =>
        /\ \A f \in DOMAIN builder \ {"pagination"} :
              builder'[f] # builder[f] =>
                 \E s \in SetterOf(f) : call'.op = builder.kind \o "::" \o s
        /\ builder.kind \in Paginated =>
              \A f \in DOMAIN builder.pagination :
                 builder'.pagination[f] # builder.pagination[f] =>
                    \E s \in SetterOf(f) : call'.op = builder.kind \o "::" \o s

\* on the pagination of the builder under way, two setters of different
\* fields give the same pagination in either order
SettersCommute ==
    (pc = "building" /\ builder.kind \in Paginated) =>
        LET p == builder.pagination IN
        \A n \in PageVals, o \in OffsetVals, s \in StartVals, e \in EndVals,
           so \in SortVals, r \in RangeVals :
            /\ Pagination_page(Pagination_offset(p, o), n)
                  = Pagination_offset(Pagination_page(p, n), o)
            /\ Pagination_page(Pagination_sort(p, so), n)
                  = Pagination_sort(Pagination_page(p, n), so)
            /\ Pagination_page(Pagination_block_range(p, r[1], r[2]), n)
                  = Pagination_block_range(Pagination_page(p, n), r[1], r[2])
            /\ Pagination_offset(Pagination_sort(p, so), o)
                  = Pagination_sort(Pagination_offset(p, o), so)
            /\ Pagination_offset(Pagination_block_range(p, r[1], r[2]), o)
                  = Pagination_block_range(Pagination_offset(p, o), r[1], r[2])
            /\ Pagination_sort(Pagination_block_range(p, r[1], r[2]), so)
                  = Pagination_block_range(Pagination_sort(p, so), r[1], r[2])
            /\ Pagination_start_block(Pagination_end_block(p, e), s)
                  = Pagination_end_block(Pagination_start_block(p, s), e)
            /\ Pagination_start_block(Pagination_page(p, n), s)
                  = Pagination_page(Pagination_start_block(p, s), n)
            /\ Pagination_end_block(Pagination_sort(p, so), e)
                  = Pagination_sort(Pagination_end_block(p, e), so)

\* C26: construction and configuration neither validate nor normalize: a
\* builder made from any string, mixed-case or malformed, holds that string
\* as given; every setter changes its own field only (block_range the start
\* and the end) and leaves the address, the hash, the transaction type, the
\* contract filter and the other pagination fields as they were; setters of
\* different fields give the same state in either order.
C26_BuildersStoreAsGiven ==
    [](StoredAsGiven /\ SettersCommute) /\ [][SettersFrame]_vars

\* a transaction query made from a mixed-case address has had its sort, its
\* block range and its page set, in that order, and holds the address as given
C26_Witness ==
    /\ pc = "building"
    /\ call.op = "TransactionQueryBuilder::page"
    /\ builder.address = ValidMixed
    /\ builder.address # ToLowercase(ValidMixed)
    /\ builder.pagination =
          [page |-> <<2>>, offset |-> <<>>, start_block |-> <<12>>,
           end_block |-> <<5>>, sort |-> <<"Descending">>]


(***************************************************************************)
(* The batch of status lookups.                                            *)
(***************************************************************************)
\* the builder of a batch as batch_status and its four setters leave it:
\* both checks on and no hash at first, one check on after a mode call, the
\* one of that call, never both off, and every hash held in lowercase, the
\* hash of transaction being the last one
BatchBuilderShape ==
    builder.kind = "TransactionStatusBuilder" =>
        /\ call.op = "Transactions::batch_status" =>
              /\ builder.check_execution /\ builder.check_receipt
              /\ builder.tx_hashes = <<>>
        /\ call.op = "TransactionStatusBuilder::execution_only" =>
              builder.check_execution /\ ~builder.check_receipt
        /\ call.op = "TransactionStatusBuilder::receipt_only" =>
              ~builder.check_execution /\ builder.check_receipt
        /\ builder.check_execution \/ builder.check_receipt
        /\ \A i \in 1..Len(builder.tx_hashes) : IsLowercase(builder.tx_hashes[i])
        /\ call.op = "TransactionStatusBuilder::transaction" =>
              /\ builder.tx_hashes # <<>>
              /\ builder.tx_hashes[Len(builder.tx_hashes)] = ToLowercase(call.args[1])

\* a step on the builder of a batch changes the checks in a mode call only
\* and the hashes in transaction and transactions only, and those two append
\* the lowercased hashes given, in the order given, to the hashes held
BatchBuilderFrame ==
    (/\ builder.kind = "TransactionStatusBuilder"
     /\ builder'.kind = "TransactionStatusBuilder") =>
        /\ (\/ builder'.check_execution # builder.check_execution
            \/ builder'.check_receipt # builder.check_receipt) =>
              /\ call'.op \in {"TransactionStatusBuilder::execution_only",
                               "TransactionStatusBuilder::receipt_only"}
              /\ builder'.tx_hashes = builder.tx_hashes
        /\ builder'.tx_hashes # builder.tx_hashes =>
              /\ call'.op \in {"TransactionStatusBuilder::transaction",
                               "TransactionStatusBuilder::transactions"}
              /\ builder'.tx_hashes =
                    builder.tx_hashes
                    \o [i \in 1..Len(call'.args) |-> ToLowercase(call'.args[i])]

\* C27: a new TransactionStatusBuilder has check_execution and check_receipt
\* both true; after execution_only or receipt_only the flags are those of
\* the last such call, exactly one true; at least one flag is true in every
\* state; a mode call never changes the hashes; transaction and transactions
\* append the lowercased hashes in call order, duplicates kept, and never
\* change the flags.
C27_BatchModes == [](BatchBuilderShape) /\ [][BatchBuilderFrame]_vars

\* after receipt_only and then execution_only, a mixed-case hash was added
\* twice: it is held twice, lowercased, with the execution check alone on
C27_Witness ==
    /\ pc = "building"
    /\ call.op = "TransactionStatusBuilder::transaction"
    /\ call.args = <<HashMixed>>
    /\ builder.tx_hashes = <<ToLowercase(HashMixed), ToLowercase(HashMixed)>>
    /\ HashMixed # ToLowercase(HashMixed)
    /\ builder.check_execution
    /\ ~builder.check_receipt


\* how many checks the builder of the batch has on
EnabledChecks ==
    (IF builder.check_execution THEN 1 ELSE 0) + (IF builder.check_receipt THEN 1 ELSE 0)

\* the action of the k-th request of the batch: per hash the execution check
\* when on, then the receipt check when on
BatchAction(k) ==
    IF builder.check_execution /\ (~builder.check_receipt \/ k % 2 = 1)
    THEN "getstatus" ELSE "gettxreceiptstatus"

\* the hash the k-th request of the batch is about
BatchHashOf(k) == builder.tx_hashes[((k - 1) \div EnabledChecks) + 1]

\* the place among the lookups of the check of that action for the i-th hash
LookupIndex(i, action) ==
    (i - 1) * EnabledChecks
    + (IF action = "gettxreceiptstatus" /\ builder.check_execution THEN 2 ELSE 1)

\* the signal the batch holds for a check: absent when the check is off or
\* its lookup failed, else what the lookup returned
SignalOf(i, action, on) ==
    IF on /\ lookups[LookupIndex(i, action)].ok
    THEN <<lookups[LookupIndex(i, action)].val>>
    ELSE <<>>

\* C28: TransactionStatusBuilder::execute always returns Ok with one
\* TransactionStatus per hash added, in the order added, duplicates kept and
\* none for no hash; for each hash it issues one getstatus request iff
\* check_execution and then one gettxreceiptstatus request iff
\* check_receipt, so hashes times enabled checks requests whatever the
\* answers; a lookup that failed leaves its signal absent for its hash alone
\* and the later hashes are still looked up; the hashes are sent as held,
\* unvalidated.
C28_BatchExecute ==
    (call.op = "TransactionStatusBuilder::execute") =>
        /\ \A k \in 1..Len(sent) :
              sent[k] = <<Param("module", "transaction"),
                          Param("action", BatchAction(k)),
                          Param("apikey", ApiKey),
                          Param("txhash", BatchHashOf(k))>>
        /\ pc # "done" =>
              /\ Len(sent) = Len(lookups) + 1
              /\ Len(sent) <= Len(builder.tx_hashes) * EnabledChecks
        /\ pc = "done" =>
              /\ Len(sent) = Len(builder.tx_hashes) * EnabledChecks
              /\ Len(lookups) = Len(sent)
              /\ result.ok
              /\ Len(result.val) = Len(builder.tx_hashes)
              /\ \A i \in 1..Len(result.val) :
                    /\ result.val[i].tx_hash = builder.tx_hashes[i]
                    /\ result.val[i].contract_execution =
                          SignalOf(i, "getstatus", builder.check_execution)
                    /\ result.val[i].receipt_status =
                          SignalOf(i, "gettxreceiptstatus", builder.check_receipt)

\* a batch of a malformed hash and a well-formed one with both checks on has
\* returned: four requests were issued, the execution lookup of the first
\* hash failed and its receipt lookup did not, and the second hash has both
\* signals
C28_Witness ==
    /\ call.op = "TransactionStatusBuilder::execute"
    /\ pc = "done"
    /\ builder.tx_hashes = <<HashShort, ToLowercase(HashMixed)>>
    /\ Len(sent) = 4
    /\ ValueOf(sent[1], "txhash") = HashShort
    /\ ~lookups[1].ok
    /\ result.val[1].contract_execution = <<>>
    /\ result.val[1].receipt_status # <<>>
    /\ result.val[2].contract_execution # <<>>
    /\ result.val[2].receipt_status # <<>>


(***************************************************************************)
(* Malformed hashes in the combined status lookups.                        *)
(***************************************************************************)
\* C29: get_comprehensive_status and is_transaction_successful return Err
\* for no hash and no answer of the transport; called with a malformed hash
\* they issue no request, both lookups fail with InvalidTxHash, the failures
\* are passed over, and the call returns Ok with both signals absent,
\* is_transaction_successful Ok(None).
C29_MalformedHashSwallowed ==
    (call.op \in {"Transactions::get_comprehensive_status",
                  "Transactions::is_transaction_successful"}) =>
        /\ pc = "done" => result.ok
        /\ ~WellFormed(call.args[1], 66) =>
              /\ pc = "done"
              /\ sent = <<>>
              /\ Len(lookups) = 2
              /\ \A i \in 1..2 :
                    ~lookups[i].ok /\ lookups[i].err.kind = "InvalidTxHash"
              /\ result =
                    (IF call.op = "Transactions::is_transaction_successful"
                     THEN [ok |-> TRUE, val |-> <<>>]
                     ELSE [ok |-> TRUE,
                           val |-> [tx_hash |-> ToLowercase(call.args[1]),
                                    contract_execution |-> <<>>,
                                    receipt_status |-> <<>>]])

\* is_transaction_successful was called with a hash ending in a letter that
\* is no hex digit and returned Ok(None) without a request
C29_Witness ==
    /\ call.op = "Transactions::is_transaction_successful"
    /\ call.args = <<HashNonHex>>
    /\ pc = "done"
    /\ sent = <<>>
    /\ result = Ok(None)


(***************************************************************************)
(* Keys of a request.                                                      *)
(***************************************************************************)
\* C30: no request carries the same key twice, whatever the operation, the
\* builder and the setters called on it.
C30_NoDuplicateKeys ==
    \A k \in 1..Len(sent) :
        \A i, j \in 1..Len(sent[k]) :
            sent[k][i].key = sent[k][j].key => i = j

\* a beacon-withdrawals query with its own block range and all of page,
\* offset and sort set was sent, each key once
C30_Witness ==
    /\ call.op = "BeaconWithdrawalsQueryBuilder::execute"
    /\ pc = "awaiting"
    /\ [i \in 1..Len(sent[1]) |-> sent[1][i].key] =
          <<"module", "action", "apikey", "address", "startblock", "endblock",
            "page", "offset", "sort">>

=============================================================================
